---- MODULE Spec2Model ----
(***************************************************************************)
(* BlockForge / ShieldGuard: the filter-rule compiler (FilterEngine), the  *)
(* dynamic rule synchronizer (FilterEngine.updateDynamicRules) and the      *)
(* RuleManager's whitelist / blacklist rules, as they run in the service    *)
(* worker against chrome.declarativeNetRequest and chrome.storage.local.    *)
(*                                                                         *)
(* Strings are sequences of one-character strings.  A filter-list text is  *)
(* the sequence of its lines (text.split('\n')).                            *)
(***************************************************************************)
EXTENDS Integers, Sequences, FiniteSets, TLC

(***************************************************************************)
(* String helpers (String.prototype.startsWith / endsWith / includes /     *)
(* trim / split as the parser uses them).                                  *)
(***************************************************************************)
StartsWith(s, p) == Len(s) >= Len(p) /\ SubSeq(s, 1, Len(p)) = p

EndsWith(s, p) == Len(s) >= Len(p) /\ SubSeq(s, Len(s) - Len(p) + 1, Len(s)) = p

OccursAt(s, p, i) == i >= 1 /\ i + Len(p) - 1 <= Len(s) /\ SubSeq(s, i, i + Len(p) - 1) = p

Includes(s, p) == \E i \in 1..Len(s) : OccursAt(s, p, i)

MinOf(S) == CHOOSE x \in S : \A y \in S : x <= y

RECURSIVE TrimLeft(_)
TrimLeft(s) == IF s # <<>> /\ Head(s) = " " THEN TrimLeft(Tail(s)) ELSE s

RECURSIVE TrimRight(_)
TrimRight(s) ==
  IF s # <<>> /\ s[Len(s)] = " " THEN TrimRight(SubSeq(s, 1, Len(s) - 1)) ELSE s

Trim(s) == TrimRight(TrimLeft(s))

\* s.split(sep) for a one-character separator: the pieces, empty ones included
RECURSIVE SplitChar(_, _, _)
SplitChar(s, sep, cur) ==
  IF s = <<>> THEN <<cur>>
  ELSE IF Head(s) = sep THEN <<cur>> \o SplitChar(Tail(s), sep, <<>>)
  ELSE SplitChar(Tail(s), sep, Append(cur, Head(s)))

\* str.split(',').filter(d => d)
DomainList(s) == SelectSeq(SplitChar(s, ",", <<>>), LAMBDA d : d # <<>>)

\* str.match(/^(.+?)SEP(.+)$/): the positions where SEP may start; the lazy
\* first group takes the least of them
SepPositions(s, sep) ==
  {i \in 2..Len(s) : OccursAt(s, sep, i) /\ i + Len(sep) <= Len(s)}

HasLazySplit(s, sep) == SepPositions(s, sep) # {}

LazyLeft(s, sep) == SubSeq(s, 1, MinOf(SepPositions(s, sep)) - 1)

LazyRight(s, sep) == SubSeq(s, MinOf(SepPositions(s, sep)) + Len(sep), Len(s))

(***************************************************************************)
(* Rule Grammar Parser                                                      *)
(***************************************************************************)
\* a parsed rule; fields a rule type does not carry are empty
ParsedRule(type, pattern, options, domains, selector) ==
  [type |-> type, pattern |-> pattern, options |-> options,
   domains |-> domains, selector |-> selector]

NullRule == ParsedRule("null", <<>>, <<>>, <<>>, <<>>)

\* characters escaped by /[.+?^${}()|[\]\\]/g
RegexSpecial == {".", "+", "?", "^", "$", "{", "}", "(", ")", "|", "[", "]", "\\"}

RECURSIVE EscapeSpecial(_)
EscapeSpecial(s) ==
  IF s = <<>> THEN <<>>
  ELSE (IF Head(s) \in RegexSpecial THEN <<"\\", Head(s)>> ELSE <<Head(s)>>)
       \o EscapeSpecial(Tail(s))

\* .replace(/c/g, by) for a one-character c
RECURSIVE ReplaceAllChar(_, _, _)
ReplaceAllChar(s, c, by) ==
  IF s = <<>> THEN <<>>
  ELSE (IF Head(s) = c THEN by ELSE <<Head(s)>>) \o ReplaceAllChar(Tail(s), c, by)

\* '([^a-zA-Z0-9_.%-]|$)'
SeparatorClass ==
  <<"(", "[", "^", "a", "-", "z", "A", "-", "Z", "0", "-", "9", "_", ".", "%", "-",
    "]", "|", "$", ")">>

\* '^https?://([a-z0-9-]+\\.)*'
DomainAnchor ==
  <<"^", "h", "t", "t", "p", "s", "?", ":", "/", "/", "(", "[", "a", "-", "z",
    "0", "-", "9", "-", "]", "+", "\\", ".", ")", "*">>

EscapedBar == <<"\\", "|">>

ReplaceStart(s, p, by) ==
  IF StartsWith(s, p) THEN by \o SubSeq(s, Len(p) + 1, Len(s)) ELSE s

ReplaceEnd(s, p, by) ==
  IF EndsWith(s, p) THEN SubSeq(s, 1, Len(s) - Len(p)) \o by ELSE s

\* FilterEngine.ruleToRegex
ruleToRegex(pattern) ==
  IF StartsWith(pattern, <<"/">>) /\ EndsWith(pattern, <<"/">>)
  THEN SubSeq(pattern, 2, Len(pattern) - 1)
  ELSE LET escaped   == EscapeSpecial(pattern)
           wild      == ReplaceAllChar(escaped, "*", <<".", "*">>)
           separator == ReplaceAllChar(wild, "^", SeparatorClass)
           domain    == ReplaceStart(separator, EscapedBar \o EscapedBar, DomainAnchor)
           start     == ReplaceStart(domain, EscapedBar, <<"^">>)
       IN  ReplaceEnd(start, EscapedBar, <<"$">>)

\* FilterEngine.parseNetworkRule; the option string is kept as written
parseNetworkRule(rule) ==
  LET isException == StartsWith(rule, <<"@", "@">>)
      ruleText    == IF isException THEN SubSeq(rule, 3, Len(rule)) ELSE rule
      hasOptions  == HasLazySplit(ruleText, <<"$">>)
      body        == IF hasOptions THEN LazyLeft(ruleText, <<"$">>) ELSE ruleText
      options     == IF hasOptions THEN LazyRight(ruleText, <<"$">>) ELSE <<>>
  IN  ParsedRule(IF isException THEN "network-exception" ELSE "network-block",
                 ruleToRegex(body), options, <<>>, <<>>)

\* FilterEngine.parseElementHidingRule
parseElementHidingRule(rule) ==
  IF HasLazySplit(rule, <<"#", "@", "#">>)
  THEN ParsedRule("element-exception", <<>>, <<>>,
                  DomainList(LazyLeft(rule, <<"#", "@", "#">>)),
                  LazyRight(rule, <<"#", "@", "#">>))
  ELSE IF HasLazySplit(rule, <<"#", "#">>)
  THEN ParsedRule("element-hide", <<>>, <<>>,
                  DomainList(LazyLeft(rule, <<"#", "#">>)),
                  LazyRight(rule, <<"#", "#">>))
  ELSE IF StartsWith(rule, <<"#", "#">>)
  THEN ParsedRule("element-hide", <<>>, <<>>, <<>>, SubSeq(rule, 3, Len(rule)))
  ELSE NullRule

\* FilterEngine.parseScriptletRule
parseScriptletRule(rule) ==
  IF HasLazySplit(rule, <<"#", "%", "#">>)
  THEN ParsedRule("scriptlet", <<>>, <<>>,
                  DomainList(LazyLeft(rule, <<"#", "%", "#">>)),
                  LazyRight(rule, <<"#", "%", "#">>))
  ELSE NullRule

\* FilterEngine.parseAdblockRule
parseAdblockRule(rule) ==
  IF Includes(rule, <<"#", "#">>) \/ Includes(rule, <<"#", "@", "#">>)
  THEN parseElementHidingRule(rule)
  ELSE IF Includes(rule, <<"#", "%", "#">>) \/ Includes(rule, <<"#", "@", "%", "#">>)
  THEN parseScriptletRule(rule)
  ELSE parseNetworkRule(rule)

\* FilterEngine.parseAdblockList
RECURSIVE parseAdblockList(_)
parseAdblockList(lines) ==
  IF lines = <<>> THEN <<>>
  ELSE LET trimmed == Trim(Head(lines))
           rest    == parseAdblockList(Tail(lines))
       IN  IF trimmed = <<>> \/ StartsWith(trimmed, <<"!">>) \/ StartsWith(trimmed, <<"[">>)
           THEN rest
           ELSE LET parsed == parseAdblockRule(trimmed)
                IN  IF parsed = NullRule THEN rest ELSE <<parsed>> \o rest


\* the token parseHostsFile discards
Localhost == <<"l", "o", "c", "a", "l", "h", "o", "s", "t">>

HostsAddresses ==
  { <<"0", ".", "0", ".", "0", ".", "0">>, <<"1", "2", "7", ".", "0", ".", "0", ".", "1">> }

\* FilterEngine.escapeRegex
escapeRegex(str) == EscapeSpecial(str)

\* a pattern without the anchor to the start of the host
HostsPatternLoose(domain) == escapeRegex(domain) \o <<"(", "/", "|", "$", ")">>

\* the pattern parseHostsFile gives a domain
HostsPattern(domain) == DomainAnchor \o escapeRegex(domain) \o <<"(", "/", "|", "$", ")">>

\* trimmed.match(/^(?:0\.0\.0\.0|127\.0\.0\.1)\s+(.+)$/): the first group, <<>>
\* when the line does not match
HostsEntry(trimmed) ==
  IF \E ip \in HostsAddresses :
       /\ StartsWith(trimmed, ip)
       /\ Len(trimmed) > Len(ip)
       /\ trimmed[Len(ip) + 1] = " "
  THEN LET ip == CHOOSE a \in HostsAddresses : StartsWith(trimmed, a)
       IN  TrimLeft(SubSeq(trimmed, Len(ip) + 1, Len(trimmed)))
  ELSE <<>>

\* FilterEngine.parseHostsFile
RECURSIVE parseHostsFile(_)
parseHostsFile(lines) ==
  IF lines = <<>> THEN <<>>
  ELSE LET trimmed == Trim(Head(lines))
           entry   == HostsEntry(trimmed)
           domain  == IF entry = <<>> THEN <<>>
                      ELSE Trim(Head(SplitChar(entry, "#", <<>>)))
           rest    == parseHostsFile(Tail(lines))
       IN  IF trimmed = <<>> \/ StartsWith(trimmed, <<"#">>) THEN rest
           ELSE IF domain # <<>> /\ domain # Localhost
           THEN <<ParsedRule("network-block", HostsPattern(domain), <<>>, <<>>, <<>>)>>
                  \o rest
           ELSE rest

\* FilterEngine.parseFilterList
parseFilterList(lines, format) ==
  IF format = "hosts" THEN parseHostsFile(lines) ELSE parseAdblockList(lines)

(***************************************************************************)
(* Configuration                                                           *)
(***************************************************************************)
\* the filter-list sources, in Object.entries(this.sources) order
ListIds == <<"easylist", "easyprivacy">>

ListIdSet == {ListIds[n] : n \in 1..Len(ListIds)}

\* compileRules: let ruleId = 100000
FirstRuleId == 100000

\* RuleManager.ruleRanges (the bands the dynamic rules use)
ruleRanges ==
  [whitelist |-> [start |-> 50000, end |-> 59999],
   blacklist |-> [start |-> 60000, end |-> 69999],
   custom    |-> [start |-> 100000, end |-> 199999]]

\* compileRules stops after the list that brings the batch to this many rules
\* (30000 in the source, scaled so that a three-rule list reaches it)
RuleLimit == 2

\* updateDynamicRules adds the rules in batches of this size (5000 in the
\* source, scaled likewise)
BatchSize == 2

\* operations started in one behaviour, backend calls that fail in it, and the
\* number of custom rules addCustomRule grows the list to
MaxOps == 2

\* the same, where one handler runs at a time
MaxSeqOps == 3

MaxFailures == 1

MaxCustom == 2

Tasks == {"t1", "t2"}

Hostnames == {"github.com", "ads.test"}

\* Date.now() values an added custom rule may get as its id
Timestamps == {1, 2}

\* the texts a fetch may return
TextA ==
  << <<"|", "|", "a", "^">>,
     <<"@", "@", "|", "|", "a", "/", "s">>,
     <<"a", "#", "#", ".", "x">> >>

TextB ==
  << <<"|", "|", "a", "^">>,
     <<"!", " ", "c">>,
     <<"|", "|", "b", "^">>,
     <<"*", "/", "a", "d", "*">> >>

Texts == {TextA, TextB}

\* a custom rule as the settings page and an import give it
CustomRule(id, type) ==
  [id |-> id, pattern |-> <<"|", "|", "a", "^">>, type |-> type]

\* the arrays importCustomRules is called with
Imports ==
  { <<>>,
    <<CustomRule(1, "allow")>>,
    <<CustomRule(1, "block"), CustomRule(2, "allow")>> }

(***************************************************************************)
(* Rule Compiler                                                           *)
(***************************************************************************)
\* a declarativeNetRequest rule: key is the condition's matching key
\* (regexFilter, urlFilter, initiatorDomains, requestDomains), value its value
DnrRule(id, priority, action, key, value) ==
  [id |-> id, priority |-> priority, action |-> action, key |-> key, value |-> value]

NullDnr == DnrRule(0, 0, "null", "null", <<>>)

\* FilterEngine.compileToDNR
compileToDNR(rule, id) == DnrRule(id, 1, "block", "regexFilter", rule.pattern)

\* a compileCustomToDNR that gives an allow rule the priority of a list rule
compileCustomToDNRFlat(rule, id) ==
  IF rule.type = "block" THEN DnrRule(id, 2, "block", "urlFilter", rule.pattern)
  ELSE IF rule.type = "allow" THEN DnrRule(id, 1, "allow", "urlFilter", rule.pattern)
  ELSE NullDnr

\* FilterEngine.compileCustomToDNR
compileCustomToDNR(rule, id) ==
  IF rule.type = "block" THEN DnrRule(id, 2, "block", "urlFilter", rule.pattern)
  ELSE IF rule.type = "allow" THEN DnrRule(id, 3, "allow", "urlFilter", rule.pattern)
  ELSE NullDnr

\* an inner loop that compiles the cosmetic rules of a list too
CompileListAll(rules, ruleId) ==
  LET sent == SelectSeq(rules, LAMBDA r : r.type \in {"network-block", "element-hide",
                                                      "element-exception"})
  IN  [n \in 1..Len(sent) |-> compileToDNR(sent[n], ruleId + n - 1)]

\* the inner loop of compileRules over one list: ruleId++ per network-block rule
CompileList(rules, ruleId) ==
  LET blocks == SelectSeq(rules, LAMBDA r : r.type = "network-block")
  IN  [n \in 1..Len(blocks) |-> compileToDNR(blocks[n], ruleId + n - 1)]

\* the outer loop of compileRules, with its break
RECURSIVE CompileLists(_, _)
CompileLists(lists, compiled) ==
  IF lists = <<>> THEN compiled
  ELSE LET next == compiled \o CompileList(Head(lists).rules, FirstRuleId + Len(compiled))
       IN  IF Len(next) >= RuleLimit THEN next ELSE CompileLists(Tail(lists), next)

\* a custom-rule loop that stops at the limit of the list loop
CompileCustomRulesCapped(custom, compiled) ==
  LET ruleId == FirstRuleId + Len(compiled)
      room   == IF Len(compiled) >= RuleLimit THEN 0 ELSE RuleLimit - Len(compiled)
      kept   == SubSeq(custom, 1, IF Len(custom) < room THEN Len(custom) ELSE room)
      all    == [n \in 1..Len(kept) |-> compileCustomToDNR(kept[n], ruleId + n - 1)]
  IN  compiled \o SelectSeq(all, LAMBDA r : r # NullDnr)

\* the custom-rule loop of compileRules: ruleId++ per custom rule
CompileCustomRules(custom, compiled) ==
  LET ruleId == FirstRuleId + Len(compiled)
      all    == [n \in 1..Len(custom) |-> compileCustomToDNR(custom[n], ruleId + n - 1)]
  IN  compiled \o SelectSeq(all, LAMBDA r : r # NullDnr)

\* the batch compileRules builds
Compile(lists, custom) == CompileCustomRules(custom, CompileLists(lists, <<>>))

(***************************************************************************)
(* State                                                                   *)
(***************************************************************************)
VARIABLES
  sources,            \* this.sources[id].enabled
  filterLists,        \* this.filterLists, a Map in insertion order: <<[id, rules]>>
  customRules,        \* this.customRules
  compiledRules,      \* this.compiledRules
  storedCustomRules,  \* chrome.storage.local customRules
  filterCache,        \* chrome.storage.local filterCache
  dynamicRules,       \* the rules installed in chrome.declarativeNetRequest
  userSets,           \* state.whitelist / state.blacklist (Sets, insertion order)
  rmSets,             \* RuleManager this.whitelist / this.blacklist
  aliased,            \* the RuleManager sets that are the same object as state's
  task,               \* the running handlers, each with its locals
  ops,                \* operations started
  failures,           \* backend calls that failed
  manager,            \* RuleManager this.isEnabled / this.blockingLevel
  enabledRulesets,    \* the static rulesets enabled in chrome.declarativeNetRequest
  reply,              \* the value the last synchronous call returned
  isEnabled,          \* background.js: let isEnabled
  settings,           \* background.js: let settings
  dynamicRuleId,      \* background.js: let dynamicRuleId
  storage,            \* background.js: siteExceptions, exceptionRuleMap, statistics
  calls,              \* background.js: the running handlers, each with its locals
  lastUpdate          \* background.js: the lists of the last updateEnabledRulesets call

vars ==
  <<sources, filterLists, customRules, compiledRules, storedCustomRules, filterCache,
    dynamicRules, userSets, rmSets, aliased, task, ops, failures,
    manager, enabledRulesets, reply,
    isEnabled, settings, dynamicRuleId, storage, calls, lastUpdate>>

levelVars == <<manager, enabledRulesets>>

workerVars == <<isEnabled, settings, dynamicRuleId, storage, calls, lastUpdate>>

\* the static rulesets enableRulesForLevel and disableAllRules name
Rulesets == {"default_rules", "tracking_rules", "social_rules", "mining_rules"}

NoReply == [fn |-> "none", arg |-> <<>>, result |-> <<>>]

\* the settings that are rulesets' switches, as getDefaultSettings gives them
SettingKeys == {"blockAds", "blockTrackers", "blockMiners", "blockMalware"}

getDefaultSettings == [key \in SettingKeys |-> TRUE]

\* the first id addDynamicAllowRule gives (1000000 in the source)
FirstExceptionId == 1000000

\* the URLs of one page a popup adds exceptions for
Urls == {<<"a", ".", "c", "/", "x">>, <<"a", ".", "c", "/", "y">>}

NoStatistics ==
  [totalBlocked |-> 0, adsBlocked |-> 0, trackersBlocked |-> 0,
   minersBlocked |-> 0, malwareBlocked |-> 0]

NoCall == [op |-> "none", pc |-> "idle", arg |-> "none", read |-> <<>>, ruleId |-> 0]

NoUpdate == [made |-> FALSE, enableRulesetIds |-> {}, disableRulesetIds |-> {}]

\* background.js after initialize() with nothing stored
WorkerInit ==
  /\ isEnabled = TRUE
  /\ settings = getDefaultSettings
  /\ dynamicRuleId = FirstExceptionId
  /\ storage = [siteExceptions |-> [has |-> FALSE, urls |-> <<>>],
                exceptionRuleMap |-> [url \in Urls |-> 0],
                statistics |-> NoStatistics]
  /\ calls = [t \in Tasks |-> NoCall]
  /\ lastUpdate = NoUpdate

\* the RuleManager after initialize() with nothing stored: applyState has
\* enabled the rulesets of level moderate
ManagerInit ==
  /\ manager = [isEnabled |-> TRUE, blockingLevel |-> "moderate"]
  /\ enabledRulesets = Rulesets

NoEntry == [has |-> FALSE, rules |-> <<>>]

EmptyCache == [id \in ListIdSet |-> NoEntry]

\* a handler that is not running; result is how its last synchronization ended
Idle(result) ==
  [op |-> "none", pc |-> "idle", sub |-> [id \in ListIdSet |-> "none"],
   data |-> [id \in ListIdSet |-> <<>>], write |-> [id \in ListIdSet |-> EmptyCache],
   rules |-> <<>>, existing |-> {},
   i |-> 0, which |-> "none", result |-> result]

Init ==
  /\ sources = [id \in ListIdSet |-> TRUE]
  /\ filterLists = <<>>
  /\ customRules = <<>>
  /\ compiledRules = <<>>
  /\ storedCustomRules = <<>>
  /\ filterCache = EmptyCache
  /\ dynamicRules = {}
  /\ userSets = [whitelist |-> <<"github.com">>, blacklist |-> <<>>]
  /\ rmSets = [whitelist |-> <<>>, blacklist |-> <<>>]
  /\ aliased = {}
  /\ task = [t \in Tasks |-> Idle("none")]
  /\ ops = 0
  /\ failures = 0
  /\ ManagerInit
  /\ WorkerInit
  /\ reply = NoReply

Range(s) == {s[n] : n \in 1..Len(s)}

Ids(rules) == {r.id : r \in rules}

\* Map.prototype.has / Map.prototype.set on the insertion-ordered map
MapHas(map, id) == \E n \in 1..Len(map) : map[n].id = id

MapSet(map, id, rules) ==
  IF MapHas(map, id)
  THEN [n \in 1..Len(map) |-> IF map[n].id = id THEN [id |-> id, rules |-> rules] ELSE map[n]]
  ELSE Append(map, [id |-> id, rules |-> rules])

(***************************************************************************)
(* chrome.declarativeNetRequest                                            *)
(***************************************************************************)
\* updateDynamicRules({addRules}) is rejected as a whole when an id is given
\* twice or is already installed
CanAdd(batch, installed) ==
  /\ Cardinality(Ids(Range(batch))) = Len(batch)
  /\ Ids(Range(batch)) \cap Ids(installed) = {}

\* updateDynamicRules({removeRuleIds})
RemoveIds(installed, ids) == {r \in installed : r.id \notin ids}

(***************************************************************************)
(* FilterEngine: the operations that end in compileRules                   *)
(***************************************************************************)
CanStart(t, limit) == task[t].pc = "idle" /\ ops < limit

Started(op, pc) == [Idle("none") EXCEPT !.op = op, !.pc = pc]

\* compileRules up to its await: the batch is built from the lists and the
\* custom rules, stored in this.compiledRules and handed to updateDynamicRules,
\* which has called getDynamicRules
Compiling(t, op, lists, custom) ==
  /\ compiledRules' = Compile(lists, custom)
  /\ task' = [task EXCEPT ![t] =
       [Idle("none") EXCEPT !.op = op, !.pc = "sync_get", !.rules = Compile(lists, custom)]]

AllSubsDone(sub) == \A id \in ListIdSet : sub[id] \in {"none", "done"}

\* updateFilterLists: one updateFilterList per enabled source, then compileRules
UpdateFilterLists(t, limit) ==
  /\ CanStart(t, limit)
  /\ ops' = ops + 1
  /\ IF \E id \in ListIdSet : sources[id]
     THEN /\ task' = [task EXCEPT ![t] =
                [Started("updateFilterLists", "lists") EXCEPT
                   !.sub = [id \in ListIdSet |-> IF sources[id] THEN "fetch" ELSE "none"]]]
          /\ UNCHANGED compiledRules
     ELSE Compiling(t, "updateFilterLists", filterLists, customRules)
  /\ UNCHANGED <<sources, filterLists, customRules, storedCustomRules, filterCache,
                 dynamicRules, userSets, rmSets, aliased, failures,
                 levelVars, workerVars, reply>>

\* toggleFilterList(id, enabled)
ToggleFilterList(t, limit, id, enabled) ==
  /\ CanStart(t, limit)
  /\ ops' = ops + 1
  /\ sources' = [sources EXCEPT ![id] = enabled]
  /\ IF enabled /\ ~MapHas(filterLists, id)
     THEN /\ task' = [task EXCEPT ![t] =
                [Started("toggleFilterList", "lists") EXCEPT !.sub[id] = "fetch"]]
          /\ UNCHANGED compiledRules
     ELSE Compiling(t, "toggleFilterList", filterLists, customRules)
  /\ UNCHANGED <<filterLists, customRules, storedCustomRules, filterCache,
                 dynamicRules, userSets, rmSets, aliased, failures,
                 levelVars, workerVars, reply>>

\* an updateFilterList whose failed fetch drops the list
FetchDoneDropping(t, id) ==
  /\ task[t].pc = "lists"
  /\ task[t].sub[id] = "fetch"
  /\ \/ \E text \in Texts :
          /\ filterLists' = MapSet(filterLists, id, parseAdblockList(text))
          /\ task' = [task EXCEPT ![t].sub[id] = "cacheGet",
                                  ![t].data[id] = parseAdblockList(text)]
          /\ UNCHANGED compiledRules
     \/ /\ filterLists' = SelectSeq(filterLists, LAMBDA l : l.id # id)
        /\ IF AllSubsDone([task[t].sub EXCEPT ![id] = "done"])
           THEN Compiling(t, task[t].op, filterLists', customRules)
           ELSE /\ task' = [task EXCEPT ![t].sub[id] = "done"]
                /\ UNCHANGED compiledRules
  /\ UNCHANGED <<sources, customRules, storedCustomRules, filterCache, dynamicRules,
                 userSets, rmSets, aliased, ops, failures,
                 levelVars, workerVars, reply>>

\* updateFilterList(id): the fetch answers.  With a text, the list is parsed
\* and set in this.filterLists and cacheFilterList reads the cache; with an
\* error the list is left as it was.
FetchDone(t, id) ==
  /\ task[t].pc = "lists"
  /\ task[t].sub[id] = "fetch"
  /\ \/ \E text \in Texts :
          /\ filterLists' = MapSet(filterLists, id, parseAdblockList(text))
          /\ task' = [task EXCEPT ![t].sub[id] = "cacheGet",
                                  ![t].data[id] = parseAdblockList(text)]
          /\ UNCHANGED compiledRules
     \/ /\ UNCHANGED filterLists
        /\ IF AllSubsDone([task[t].sub EXCEPT ![id] = "done"])
           THEN Compiling(t, task[t].op, filterLists, customRules)
           ELSE /\ task' = [task EXCEPT ![t].sub[id] = "done"]
                /\ UNCHANGED compiledRules
  /\ UNCHANGED <<sources, customRules, storedCustomRules, filterCache, dynamicRules,
                 userSets, rmSets, aliased, ops, failures,
                 levelVars, workerVars, reply>>

\* cacheFilterList: storage.local.get('filterCache') answers; filterCache[id] = data
CacheGet(t, id) ==
  /\ task[t].pc = "lists"
  /\ task[t].sub[id] = "cacheGet"
  /\ task' = [task EXCEPT
       ![t].sub[id] = "cacheSet",
       ![t].write[id] = [filterCache EXCEPT ![id] = [has |-> TRUE, rules |-> task[t].data[id]]]]
  /\ UNCHANGED <<sources, filterLists, customRules, compiledRules, storedCustomRules,
                 filterCache, dynamicRules, userSets, rmSets, aliased, ops, failures,
                 levelVars, workerVars, reply>>

\* cacheFilterList: storage.local.set({ filterCache }) is done; when this was
\* the last list of the operation, compileRules runs
CacheSet(t, id) ==
  /\ task[t].pc = "lists"
  /\ task[t].sub[id] = "cacheSet"
  /\ filterCache' = task[t].write[id]
  /\ IF AllSubsDone([task[t].sub EXCEPT ![id] = "done"])
     THEN Compiling(t, task[t].op, filterLists, customRules)
     ELSE /\ task' = [task EXCEPT ![t].sub[id] = "done",
                                  ![t].data[id] = <<>>,
                                  ![t].write[id] = EmptyCache]
          /\ UNCHANGED compiledRules
  /\ UNCHANGED <<sources, filterLists, customRules, storedCustomRules, dynamicRules,
                 userSets, rmSets, aliased, ops, failures,
                 levelVars, workerVars, reply>>

\* addCustomRule(rule) up to its first await
AddCustomRule(t, limit, type, now) ==
  /\ CanStart(t, limit)
  /\ Len(customRules) < MaxCustom
  /\ ops' = ops + 1
  /\ customRules' = Append(customRules, CustomRule(now, type))
  /\ storedCustomRules' = customRules'
  /\ task' = [task EXCEPT ![t] = Started("addCustomRule", "stored")]
  /\ UNCHANGED <<sources, filterLists, compiledRules, filterCache, dynamicRules,
                 userSets, rmSets, aliased, failures,
                 levelVars, workerVars, reply>>

\* removeCustomRule(ruleId) up to its first await
RemoveCustomRule(t, limit, ruleId) ==
  /\ CanStart(t, limit)
  /\ ops' = ops + 1
  /\ customRules' = SelectSeq(customRules, LAMBDA r : r.id # ruleId)
  /\ storedCustomRules' = customRules'
  /\ task' = [task EXCEPT ![t] = Started("removeCustomRule", "stored")]
  /\ UNCHANGED <<sources, filterLists, compiledRules, filterCache, dynamicRules,
                 userSets, rmSets, aliased, failures,
                 levelVars, workerVars, reply>>

\* importCustomRules(rules) up to its first await
ImportCustomRules(t, limit, rules) ==
  /\ CanStart(t, limit)
  /\ ops' = ops + 1
  /\ customRules' = rules
  /\ storedCustomRules' = customRules'
  /\ task' = [task EXCEPT ![t] = Started("importCustomRules", "stored")]
  /\ UNCHANGED <<sources, filterLists, compiledRules, filterCache, dynamicRules,
                 userSets, rmSets, aliased, failures,
                 levelVars, workerVars, reply>>

\* storage.local.set({ customRules }) is done: compileRules runs
Stored(t) ==
  /\ task[t].pc = "stored"
  /\ Compiling(t, task[t].op, filterLists, customRules)
  /\ UNCHANGED <<sources, filterLists, customRules, storedCustomRules, filterCache,
                 dynamicRules, userSets, rmSets, aliased, ops, failures,
                 levelVars, workerVars, reply>>

(***************************************************************************)
(* FilterEngine.updateDynamicRules(rules)                                  *)
(***************************************************************************)
\* a backend call throws: the catch logs it and updateDynamicRules returns
CallFails(t) ==
  /\ failures < MaxFailures
  /\ failures' = failures + 1
  /\ task' = [task EXCEPT ![t] = Idle("failed")]
  /\ UNCHANGED dynamicRules

\* a removal list that spares the allow rules
existingIdsOfBlocks(existingRules) == Ids({r \in existingRules : r.action = "block"})

\* the ids updateDynamicRules removes: those of every existing dynamic rule
existingIds(existingRules) == Ids(existingRules)

\* the batch the loop adds at offset i: rules.slice(i, i + batchSize)
Batch(rules, i) ==
  SubSeq(rules, i + 1, IF i + BatchSize < Len(rules) THEN i + BatchSize ELSE Len(rules))

\* getDynamicRules answers
SyncGet(t) ==
  /\ task[t].pc = "sync_get"
  /\ \/ CallFails(t)
     \/ /\ task' = [task EXCEPT ![t] =
             IF existingIds(dynamicRules) # {}
             THEN [@ EXCEPT !.pc = "sync_remove", !.existing = dynamicRules]
             ELSE IF Len(@.rules) > 0
             THEN [@ EXCEPT !.pc = "sync_add"]
             ELSE Idle("ok")]
        /\ UNCHANGED <<dynamicRules, failures>>
  /\ UNCHANGED <<sources, filterLists, customRules, compiledRules, storedCustomRules,
                 filterCache, userSets, rmSets, aliased, ops,
                 levelVars, workerVars, reply>>

\* updateDynamicRules({ removeRuleIds: existingIds }) answers
SyncRemove(t) ==
  /\ task[t].pc = "sync_remove"
  /\ \/ CallFails(t)
     \/ /\ dynamicRules' = RemoveIds(dynamicRules, existingIds(task[t].existing))
        /\ task' = [task EXCEPT ![t] =
             IF Len(@.rules) > 0
             THEN [@ EXCEPT !.pc = "sync_add"]
             ELSE Idle("ok")]
        /\ UNCHANGED failures
  /\ UNCHANGED <<sources, filterLists, customRules, compiledRules, storedCustomRules,
                 filterCache, userSets, rmSets, aliased, ops,
                 levelVars, workerVars, reply>>

\* updateDynamicRules({ addRules: batch }) answers
SyncAdd(t) ==
  /\ task[t].pc = "sync_add"
  /\ \/ CallFails(t)
     \/ /\ ~CanAdd(Batch(task[t].rules, task[t].i), dynamicRules)
        /\ task' = [task EXCEPT ![t] = Idle("failed")]
        /\ UNCHANGED <<dynamicRules, failures>>
     \/ /\ CanAdd(Batch(task[t].rules, task[t].i), dynamicRules)
        /\ dynamicRules' = dynamicRules \cup Range(Batch(task[t].rules, task[t].i))
        /\ task' = [task EXCEPT ![t] =
             IF @.i + BatchSize < Len(@.rules)
             THEN [@ EXCEPT !.i = @ + BatchSize]
             ELSE Idle("ok")]
        /\ UNCHANGED failures
  /\ UNCHANGED <<sources, filterLists, customRules, compiledRules, storedCustomRules,
                 filterCache, userSets, rmSets, aliased, ops,
                 levelVars, workerVars, reply>>

(***************************************************************************)
(* RuleManager: whitelist and blacklist rules (which is "whitelist" or      *)
(* "blacklist").  The settings and ruleManagerState writes of handleWhitelist *)
(* and updateWhitelist are awaits here; what they persist is not read again. *)
(***************************************************************************)
InBand(which, id) == id >= ruleRanges[which].start /\ id < ruleRanges[which].end

\* Set.prototype.add / delete, the set kept in insertion order
SetAdd(set, x) == IF x \in Range(set) THEN set ELSE Append(set, x)

SetDelete(set, x) == SelectSeq(set, LAMBDA y : y # x)

\* applyWhitelistRules: two allow rules per domain, ruleId++ from the band's start
WhitelistRules(domains) ==
  [n \in 1..(2 * Len(domains)) |->
     IF n % 2 = 1
     THEN DnrRule(ruleRanges.whitelist.start + n - 1, 10, "allow", "initiatorDomains",
                  <<domains[(n + 1) \div 2]>>)
     ELSE DnrRule(ruleRanges.whitelist.start + n - 1, 10, "allow", "requestDomains",
                  <<domains[n \div 2]>>)]

\* blacklist rules at the priority of a custom allow rule
BlacklistRulesLow(domains) ==
  [n \in 1..Len(domains) |->
     DnrRule(ruleRanges.blacklist.start + n - 1, 3, "block", "requestDomains",
             <<domains[n]>>)]

\* applyBlacklistRules: one block rule per domain, ruleId++ from the band's start
BlacklistRules(domains) ==
  [n \in 1..Len(domains) |->
     DnrRule(ruleRanges.blacklist.start + n - 1, 5, "block", "requestDomains",
             <<domains[n]>>)]

ListRules(which, domains) ==
  IF which = "whitelist" THEN WhitelistRules(domains) ELSE BlacklistRules(domains)

\* handleWhitelist / handleBlacklist (hostname, add) up to the first await
HandleList(t, limit, which, hostname, add) ==
  /\ CanStart(t, limit)
  /\ ops' = ops + 1
  /\ userSets' = [userSets EXCEPT ![which] =
       IF add THEN SetAdd(@, hostname) ELSE SetDelete(@, hostname)]
  /\ rmSets' = IF which \in aliased THEN [rmSets EXCEPT ![which] = userSets'[which]]
               ELSE rmSets
  /\ task' = [task EXCEPT ![t] =
       [Started("handleList", "list_settings") EXCEPT !.which = which]]
  /\ UNCHANGED <<sources, filterLists, customRules, compiledRules, storedCustomRules,
                 filterCache, dynamicRules, aliased, failures,
                 levelVars, workerVars, reply>>

\* updateSettings is done: updateWhitelist / updateBlacklist takes state's Set
\* as this.whitelist / this.blacklist, saves the state and calls getDynamicRules
UpdateList(t) ==
  /\ task[t].pc = "list_settings"
  /\ rmSets' = [rmSets EXCEPT ![task[t].which] = userSets[task[t].which]]
  /\ aliased' = aliased \cup {task[t].which}
  /\ task' = [task EXCEPT ![t].pc = "apply_get"]
  /\ UNCHANGED <<sources, filterLists, customRules, compiledRules, storedCustomRules,
                 filterCache, dynamicRules, userSets, ops, failures,
                 levelVars, workerVars, reply>>

\* the new rules are built when the code reaches the loop over this.whitelist
Applying(t) ==
  LET rules == ListRules(task[t].which, rmSets[task[t].which])
  IN  IF Len(rules) > 0
      THEN [task[t] EXCEPT !.pc = "apply_add", !.rules = rules, !.existing = {}]
      ELSE Idle("ok")

\* applyWhitelistRules / applyBlacklistRules: getDynamicRules answers
ApplyGet(t) ==
  /\ task[t].pc = "apply_get"
  /\ \/ CallFails(t)
     \/ /\ task' = [task EXCEPT ![t] =
             IF \E r \in dynamicRules : InBand(task[t].which, r.id)
             THEN [@ EXCEPT !.pc = "apply_remove",
                            !.existing = {r \in dynamicRules : InBand(task[t].which, r.id)}]
             ELSE Applying(t)]
        /\ UNCHANGED <<dynamicRules, failures>>
  /\ UNCHANGED <<sources, filterLists, customRules, compiledRules, storedCustomRules,
                 filterCache, userSets, rmSets, aliased, ops,
                 levelVars, workerVars, reply>>

\* updateDynamicRules({ removeRuleIds }) of the band's rules answers
ApplyRemove(t) ==
  /\ task[t].pc = "apply_remove"
  /\ \/ CallFails(t)
     \/ /\ dynamicRules' = RemoveIds(dynamicRules, Ids(task[t].existing))
        /\ task' = [task EXCEPT ![t] = Applying(t)]
        /\ UNCHANGED failures
  /\ UNCHANGED <<sources, filterLists, customRules, compiledRules, storedCustomRules,
                 filterCache, userSets, rmSets, aliased, ops,
                 levelVars, workerVars, reply>>

\* updateDynamicRules({ addRules: rules }) of the band's new rules answers
ApplyAdd(t) ==
  /\ task[t].pc = "apply_add"
  /\ \/ CallFails(t)
     \/ /\ ~CanAdd(task[t].rules, dynamicRules)
        /\ task' = [task EXCEPT ![t] = Idle("failed")]
        /\ UNCHANGED <<dynamicRules, failures>>
     \/ /\ CanAdd(task[t].rules, dynamicRules)
        /\ dynamicRules' = dynamicRules \cup Range(task[t].rules)
        /\ task' = [task EXCEPT ![t] = Idle("ok")]
        /\ UNCHANGED failures
  /\ UNCHANGED <<sources, filterLists, customRules, compiledRules, storedCustomRules,
                 filterCache, userSets, rmSets, aliased, ops,
                 levelVars, workerVars, reply>>

(***************************************************************************)
(* The service worker.  Messages arrive at any time and their handlers     *)
(* interleave at every await.                                              *)
(***************************************************************************)
\* the FilterEngine's operations, started by any of the handlers in Tasks
Next ==
  \/ \E t \in Tasks : UpdateFilterLists(t, MaxOps)
  \/ \E t \in Tasks, id \in ListIdSet, enabled \in BOOLEAN :
        ToggleFilterList(t, MaxOps, id, enabled)
  \/ \E t \in Tasks, id \in ListIdSet : FetchDone(t, id)
  \/ \E t \in Tasks, id \in ListIdSet : CacheGet(t, id)
  \/ \E t \in Tasks, id \in ListIdSet : CacheSet(t, id)
  \/ \E t \in Tasks, type \in {"block", "allow"}, now \in Timestamps :
        AddCustomRule(t, MaxOps, type, now)
  \/ \E t \in Tasks, ruleId \in Timestamps : RemoveCustomRule(t, MaxOps, ruleId)
  \/ \E t \in Tasks, rules \in Imports : ImportCustomRules(t, MaxOps, rules)
  \/ \E t \in Tasks : Stored(t)
  \/ \E t \in Tasks : SyncGet(t)
  \/ \E t \in Tasks : SyncRemove(t)
  \/ \E t \in Tasks : SyncAdd(t)

Spec == Init /\ [][Next]_vars

\* the FilterEngine and the RuleManager with one message handled at a time
Handler == "t1"

ManagerNext ==
  \/ UpdateFilterLists(Handler, MaxSeqOps)
  \/ \E id \in ListIdSet : FetchDone(Handler, id)
  \/ \E id \in ListIdSet : CacheGet(Handler, id)
  \/ \E id \in ListIdSet : CacheSet(Handler, id)
  \/ \E type \in {"block", "allow"}, now \in Timestamps :
        AddCustomRule(Handler, MaxSeqOps, type, now)
  \/ \E rules \in Imports : ImportCustomRules(Handler, MaxSeqOps, rules)
  \/ Stored(Handler)
  \/ SyncGet(Handler)
  \/ SyncRemove(Handler)
  \/ SyncAdd(Handler)
  \/ \E which \in {"whitelist", "blacklist"}, hostname \in Hostnames, add \in BOOLEAN :
        HandleList(Handler, MaxSeqOps, which, hostname, add)
  \/ UpdateList(Handler)
  \/ ApplyGet(Handler)
  \/ ApplyRemove(Handler)
  \/ ApplyAdd(Handler)

ManagerSpec == Init /\ [][ManagerNext]_vars

(***************************************************************************)
(* updateDynamicRules on its own: compileRules has built the batch from the *)
(* lists and custom rules below and runs its synchronization, again and     *)
(* again, against a backend that holds what an earlier compilation          *)
(* installed, all of it or the batches added before that run stopped.       *)
(***************************************************************************)
CachedList(id, text) == [id |-> id, rules |-> parseAdblockList(text)]

ListStates ==
  { <<>>,
    <<CachedList("easylist", TextA)>>,
    <<CachedList("easylist", TextB)>>,
    <<CachedList("easyprivacy", TextA), CachedList("easylist", TextB)>> }

\* what a run of updateDynamicRules(rules) that added its first k batches left
AddedBatches(rules, k) ==
  Range(SubSeq(rules, 1, IF k * BatchSize < Len(rules) THEN k * BatchSize ELSE Len(rules)))

InstalledBefore ==
  UNION { {AddedBatches(Compile(lists, custom), k) \cup Range(ListRules("whitelist", white)) :
             k \in 0..Len(Compile(lists, custom)), white \in {<<>>, <<"github.com">>}} :
          lists \in ListStates, custom \in Imports }

\* compileRules runs again on unchanged lists and custom rules
Recompile(t) ==
  /\ task[t].pc = "idle"
  /\ Compiling(t, "compileRules", filterLists, customRules)
  /\ UNCHANGED <<sources, filterLists, customRules, storedCustomRules, filterCache,
                 dynamicRules, userSets, rmSets, aliased, ops, failures,
                 levelVars, workerVars, reply>>

SyncInit ==
  /\ sources = [id \in ListIdSet |-> TRUE]
  /\ filterLists \in ListStates
  /\ customRules \in Imports
  /\ compiledRules = Compile(filterLists, customRules)
  /\ storedCustomRules = customRules
  /\ filterCache = EmptyCache
  /\ dynamicRules \in InstalledBefore
  /\ userSets = [whitelist |-> <<"github.com">>, blacklist |-> <<>>]
  /\ rmSets = [whitelist |-> <<>>, blacklist |-> <<>>]
  /\ aliased = {}
  /\ task = [t \in Tasks |->
       IF t = Handler
       THEN [Idle("none") EXCEPT !.op = "compileRules", !.pc = "sync_get",
                                 !.rules = compiledRules]
       ELSE Idle("none")]
  /\ ops = 0
  /\ failures = 0
  /\ ManagerInit
  /\ WorkerInit
  /\ reply = NoReply

SyncNext ==
  \/ SyncGet(Handler)
  \/ SyncRemove(Handler)
  \/ SyncAdd(Handler)
  \/ Recompile(Handler)

SyncSpec == SyncInit /\ [][SyncNext]_vars

(***************************************************************************)
(* Whitelist messages whose handlers interleave                             *)
(***************************************************************************)
WhitelistNext ==
  \/ \E t \in Tasks, hostname \in Hostnames, add \in BOOLEAN :
       HandleList(t, MaxOps, "whitelist", hostname, add)
  \/ \E t \in Tasks : UpdateList(t)
  \/ \E t \in Tasks : ApplyGet(t)
  \/ \E t \in Tasks : ApplyRemove(t)
  \/ \E t \in Tasks : ApplyAdd(t)

WhitelistSpec == Init /\ [][WhitelistNext]_vars

(***************************************************************************)
(* RuleManager: blocking levels and the protection switch                   *)
(***************************************************************************)
\* this.levelConfigs
levelConfigs ==
  [minimal    |-> [enableAds |-> TRUE, enableTrackers |-> FALSE, enableSocial |-> FALSE,
                   enableMining |-> TRUE, enableMalware |-> TRUE],
   moderate   |-> [enableAds |-> TRUE, enableTrackers |-> TRUE, enableSocial |-> TRUE,
                   enableMining |-> TRUE, enableMalware |-> TRUE],
   aggressive |-> [enableAds |-> TRUE, enableTrackers |-> TRUE, enableSocial |-> TRUE,
                   enableMining |-> TRUE, enableMalware |-> TRUE,
                   blockFirstParty |-> TRUE, blockCookies |-> TRUE]]

\* the levels a TOGGLE_SETTING message may carry; "custom" has no configuration
RequestedLevels == DOMAIN levelConfigs \cup {"custom"}

\* the ruleset each flag of a configuration stands for in enableRulesForLevel
RulesetOf ==
  [enableAds |-> "default_rules", enableTrackers |-> "tracking_rules",
   enableSocial |-> "social_rules", enableMining |-> "mining_rules"]

\* rulesetIds of enableRulesForLevel
EnableRulesetIds(level) ==
  {RulesetOf[flag] : flag \in {f \in DOMAIN RulesetOf : levelConfigs[level][f]}}

\* disabledIds of enableRulesForLevel
DisableRulesetIds(level) ==
  {RulesetOf[flag] : flag \in {f \in DOMAIN RulesetOf : ~levelConfigs[level][f]}}

MaxLevelOps == 3

\* RuleManager.setBlockingLevel(level), up to the await of saveState
SetBlockingLevel(t, level) ==
  /\ CanStart(t, MaxLevelOps)
  /\ ops' = ops + 1
  /\ IF level \notin DOMAIN levelConfigs
     THEN UNCHANGED <<manager, task>>
     ELSE /\ manager' = [manager EXCEPT !.blockingLevel = level]
          /\ task' = [task EXCEPT ![t] =
                 [Started("setBlockingLevel", "save") EXCEPT !.which = level]]
  /\ UNCHANGED <<sources, filterLists, customRules, compiledRules, storedCustomRules,
                 filterCache, dynamicRules, userSets, rmSets, aliased, failures,
                 enabledRulesets, workerVars, reply>>

\* RuleManager.setEnabled(enabled), up to the await of saveState
SetEnabled(t, enabled) ==
  /\ CanStart(t, MaxLevelOps)
  /\ ops' = ops + 1
  /\ manager' = [manager EXCEPT !.isEnabled = enabled]
  /\ task' = [task EXCEPT ![t] =
         [Started("setEnabled", "save") EXCEPT
            !.which = IF enabled THEN "enable" ELSE "disable"]]
  /\ UNCHANGED <<sources, filterLists, customRules, compiledRules, storedCustomRules,
                 filterCache, dynamicRules, userSets, rmSets, aliased, failures,
                 enabledRulesets, workerVars, reply>>

\* saveState answers: the caller goes on to enableRulesForLevel or
\* disableAllRules, which build their lists and call updateEnabledRulesets
StateSaved(t) ==
  /\ task[t].pc = "save"
  /\ \/ /\ failures < MaxFailures
        /\ failures' = failures + 1
        /\ task' = [task EXCEPT ![t] = Idle("failed")]
     \/ /\ UNCHANGED failures
        /\ task' = [task EXCEPT ![t] =
             IF task[t].op = "setBlockingLevel"
             THEN IF manager.isEnabled THEN [@ EXCEPT !.pc = "rulesets"] ELSE Idle("none")
             ELSE IF task[t].which = "enable"
                  THEN [@ EXCEPT !.pc = "rulesets", !.which = manager.blockingLevel]
                  ELSE [@ EXCEPT !.pc = "disable"]]
  /\ UNCHANGED <<sources, filterLists, customRules, compiledRules, storedCustomRules,
                 filterCache, dynamicRules, userSets, rmSets, aliased, ops,
                 levelVars, workerVars, reply>>

\* updateEnabledRulesets of enableRulesForLevel answers; a failure is logged
RulesetsUpdated(t) ==
  /\ task[t].pc = "rulesets"
  /\ \/ /\ failures < MaxFailures
        /\ failures' = failures + 1
        /\ UNCHANGED enabledRulesets
     \/ /\ UNCHANGED failures
        /\ enabledRulesets' = (enabledRulesets \ DisableRulesetIds(task[t].which))
                                 \cup EnableRulesetIds(task[t].which)
  /\ task' = [task EXCEPT ![t] = Idle("none")]
  /\ UNCHANGED <<sources, filterLists, customRules, compiledRules, storedCustomRules,
                 filterCache, dynamicRules, userSets, rmSets, aliased, ops,
                 manager, workerVars, reply>>

\* updateEnabledRulesets of disableAllRules answers; a failure is logged
RulesetsDisabled(t) ==
  /\ task[t].pc = "disable"
  /\ \/ /\ failures < MaxFailures
        /\ failures' = failures + 1
        /\ UNCHANGED enabledRulesets
     \/ /\ UNCHANGED failures
        /\ enabledRulesets' = enabledRulesets \ Rulesets
  /\ task' = [task EXCEPT ![t] = Idle("none")]
  /\ UNCHANGED <<sources, filterLists, customRules, compiledRules, storedCustomRules,
                 filterCache, dynamicRules, userSets, rmSets, aliased, ops,
                 manager, workerVars, reply>>

LevelNext ==
  \/ \E t \in Tasks, level \in RequestedLevels : SetBlockingLevel(t, level)
  \/ \E t \in Tasks, enabled \in BOOLEAN : SetEnabled(t, enabled)
  \/ \E t \in Tasks : StateSaved(t)
  \/ \E t \in Tasks : RulesetsUpdated(t)
  \/ \E t \in Tasks : RulesetsDisabled(t)

LevelSpec == Init /\ [][LevelNext]_vars

(***************************************************************************)
(* background.js: the self-contained service worker.  Its message handlers  *)
(* interleave at every await; a restart of the worker resets its variables. *)
(***************************************************************************)
\* what the FilterEngine and the RuleManager hold, which background.js leaves alone
engineVars ==
  <<sources, filterLists, customRules, compiledRules, storedCustomRules, filterCache,
    userSets, rmSets, aliased, task, failures, manager, reply>>

MaxWorkerOps == 3

CallStarts(t) == calls[t].pc = "idle" /\ ops < MaxWorkerOps /\ ops' = ops + 1

\* url.replace(/[.*+?^${}()|[\]\\]/g, '\\$&')
RECURSIVE EscapeUrl(_)
EscapeUrl(url) ==
  IF url = <<>> THEN <<>>
  ELSE (IF Head(url) \in RegexSpecial \cup {"*"} THEN <<"\\", Head(url)>>
        ELSE <<Head(url)>>) \o EscapeUrl(Tail(url))

\* the rule addDynamicAllowRule builds
ExceptionRule(url, id) == DnrRule(id, 1, "allow", "urlFilter", EscapeUrl(url))

\* message addException / removeException, up to storage.get(['siteExceptions'])
ExceptionMessage(t, action, url) ==
  /\ CallStarts(t)
  /\ calls' = [calls EXCEPT ![t] =
       [NoCall EXCEPT !.op = action, !.pc = "exceptions_get", !.arg = url]]
  /\ UNCHANGED <<engineVars, dynamicRules, enabledRulesets, isEnabled, settings,
                 dynamicRuleId, storage, lastUpdate>>

\* siteExceptions is read: the URL is pushed or filtered out, storage.set is called
ExceptionsRead(t) ==
  LET stored == storage.siteExceptions
      url    == calls[t].arg
  IN  /\ calls[t].pc = "exceptions_get"
      /\ calls' = [calls EXCEPT ![t] =
           IF calls[t].op = "addException"
           THEN IF url \in Range(stored.urls) THEN NoCall
                ELSE [@ EXCEPT !.pc = "exceptions_set",
                               !.read = [has |-> TRUE, urls |-> Append(stored.urls, url)]]
           ELSE IF ~stored.has THEN NoCall
                ELSE [@ EXCEPT !.pc = "exceptions_set",
                               !.read = [has |-> TRUE,
                                         urls |-> SelectSeq(stored.urls, LAMBDA u : u # url)]]]
      /\ UNCHANGED <<engineVars, dynamicRules, enabledRulesets, ops, isEnabled, settings,
                     dynamicRuleId, storage, lastUpdate>>

\* siteExceptions is written: addDynamicAllowRule calls getDynamicRules,
\* removeDynamicAllowRule reads exceptionRuleMap
ExceptionsWritten(t) ==
  /\ calls[t].pc = "exceptions_set"
  /\ storage' = [storage EXCEPT !.siteExceptions = calls[t].read]
  /\ calls' = [calls EXCEPT ![t].pc =
       IF calls[t].op = "addException" THEN "rules_get" ELSE "map_get"]
  /\ UNCHANGED <<engineVars, dynamicRules, enabledRulesets, ops, isEnabled, settings,
                 dynamicRuleId, lastUpdate>>

\* getDynamicRules answers: ruleId = dynamicRuleId++, updateDynamicRules({addRules})
RulesRead(t) ==
  /\ calls[t].pc = "rules_get"
  /\ dynamicRuleId' = dynamicRuleId + 1
  /\ calls' = [calls EXCEPT ![t].pc = "rule_add", ![t].ruleId = dynamicRuleId]
  /\ UNCHANGED <<engineVars, dynamicRules, enabledRulesets, ops, isEnabled, settings,
                 storage, lastUpdate>>

\* addRules answers: the backend rejects an id that is in use, and the catch
\* of addDynamicAllowRule ends the call; else exceptionRuleMap is read
RuleAdded(t) ==
  LET rule == ExceptionRule(calls[t].arg, calls[t].ruleId)
  IN  /\ calls[t].pc = "rule_add"
      /\ IF CanAdd(<<rule>>, dynamicRules)
         THEN /\ dynamicRules' = dynamicRules \cup {rule}
              /\ calls' = [calls EXCEPT ![t].pc = "map_get"]
         ELSE /\ calls' = [calls EXCEPT ![t] = NoCall]
              /\ UNCHANGED dynamicRules
      /\ UNCHANGED <<engineVars, enabledRulesets, ops, isEnabled, settings,
                     dynamicRuleId, storage, lastUpdate>>

\* exceptionRuleMap is read: the add sets ruleMap[url]; the remove looks the
\* id up and, if there is one, calls updateDynamicRules({removeRuleIds})
MapRead(t) ==
  LET ruleMap == storage.exceptionRuleMap
      url     == calls[t].arg
  IN  /\ calls[t].pc = "map_get"
      /\ calls' = [calls EXCEPT ![t] =
           IF calls[t].op = "addException"
           THEN [@ EXCEPT !.pc = "map_set", !.read = [ruleMap EXCEPT ![url] = calls[t].ruleId]]
           ELSE IF ruleMap[url] # 0
                THEN [@ EXCEPT !.pc = "rule_remove", !.read = ruleMap, !.ruleId = ruleMap[url]]
                ELSE NoCall]
      /\ UNCHANGED <<engineVars, dynamicRules, enabledRulesets, ops, isEnabled, settings,
                     dynamicRuleId, storage, lastUpdate>>

\* removeRuleIds answers: delete ruleMap[url], storage.set
RuleRemoved(t) ==
  /\ calls[t].pc = "rule_remove"
  /\ dynamicRules' = RemoveIds(dynamicRules, {calls[t].ruleId})
  /\ calls' = [calls EXCEPT ![t].pc = "map_set",
                            ![t].read = [calls[t].read EXCEPT ![calls[t].arg] = 0]]
  /\ UNCHANGED <<engineVars, enabledRulesets, ops, isEnabled, settings,
                 dynamicRuleId, storage, lastUpdate>>

\* exceptionRuleMap is written
MapWritten(t) ==
  /\ calls[t].pc = "map_set"
  /\ storage' = [storage EXCEPT !.exceptionRuleMap = calls[t].read]
  /\ calls' = [calls EXCEPT ![t] = NoCall]
  /\ UNCHANGED <<engineVars, dynamicRules, enabledRulesets, ops, isEnabled, settings,
                 dynamicRuleId, lastUpdate>>

\* the browser stops the idle worker and starts it again: the script's
\* variables are initialised anew, storage and the installed rules stay
Restart ==
  /\ \A t \in Tasks : calls[t].pc = "idle"
  /\ dynamicRuleId # FirstExceptionId
  /\ dynamicRuleId' = FirstExceptionId
  /\ UNCHANGED <<engineVars, dynamicRules, enabledRulesets, ops, isEnabled, settings,
                 storage, calls, lastUpdate>>

ExceptionNext ==
  \/ \E action \in {"addException", "removeException"}, url \in Urls :
       ExceptionMessage(Handler, action, url)
  \/ ExceptionsRead(Handler)
  \/ ExceptionsWritten(Handler)
  \/ RulesRead(Handler)
  \/ RuleAdded(Handler)
  \/ MapRead(Handler)
  \/ RuleRemoved(Handler)
  \/ MapWritten(Handler)
  \/ Restart

ExceptionSpec == Init /\ [][ExceptionNext]_vars

\* the counter of statistics that recordBlock increments for a block type
CounterOf ==
  [ad |-> "adsBlocked", tracker |-> "trackersBlocked",
   miner |-> "minersBlocked", malware |-> "malwareBlocked"]

\* a rule matched while protection is on: recordBlock(tabId, url, type, source)
\* up to storage.get(['statistics', 'dailyStats', 'blockLog'])
RecordBlock(t, type) ==
  /\ isEnabled
  /\ CallStarts(t)
  /\ calls' = [calls EXCEPT ![t] =
       [NoCall EXCEPT !.op = "recordBlock", !.pc = "statistics_get", !.arg = type]]
  /\ UNCHANGED <<engineVars, dynamicRules, enabledRulesets, isEnabled, settings,
                 dynamicRuleId, storage, lastUpdate>>

\* the statistics are read: totalBlocked++ and the type's counter++ on the
\* object read, then storage.set is called with it
StatisticsRead(t) ==
  LET statistics == storage.statistics
      counter    == CounterOf[calls[t].arg]
  IN  /\ calls[t].pc = "statistics_get"
      /\ calls' = [calls EXCEPT
           ![t].pc = "statistics_set",
           ![t].read = [statistics EXCEPT !.totalBlocked = @ + 1, ![counter] = @ + 1]]
      /\ UNCHANGED <<engineVars, dynamicRules, enabledRulesets, ops, isEnabled, settings,
                     dynamicRuleId, storage, lastUpdate>>

\* storage.set({ statistics, dailyStats, blockLog }) is done
StatisticsWritten(t) ==
  /\ calls[t].pc = "statistics_set"
  /\ storage' = [storage EXCEPT !.statistics = calls[t].read]
  /\ calls' = [calls EXCEPT ![t] = NoCall]
  /\ UNCHANGED <<engineVars, dynamicRules, enabledRulesets, ops, isEnabled, settings,
                 dynamicRuleId, lastUpdate>>

StatisticsNext ==
  \/ \E t \in Tasks, type \in DOMAIN CounterOf : RecordBlock(t, type)
  \/ \E t \in Tasks : StatisticsRead(t)
  \/ \E t \in Tasks : StatisticsWritten(t)

StatisticsSpec == Init /\ [][StatisticsNext]_vars

\* the ruleset each setting switches in updateRules
RulesetFor ==
  [blockAds |-> "ads_rules", blockTrackers |-> "trackers_rules",
   blockMiners |-> "miners_rules", blockMalware |-> "malware_rules"]

WorkerRulesets == {RulesetFor[key] : key \in SettingKeys}

\* an updateRules that does not look at isEnabled
updateRulesUnconditional(enabled, sets) ==
  [made |-> TRUE,
   enableRulesetIds  |-> {RulesetFor[key] : key \in {k \in SettingKeys : sets[k] # FALSE}},
   disableRulesetIds |-> {RulesetFor[key] : key \in {k \in SettingKeys : sets[k] = FALSE}}]

\* updateRules: the two lists it builds from isEnabled and settings
updateRules(enabled, sets) ==
  [made |-> TRUE,
   enableRulesetIds  |->
     {RulesetFor[key] : key \in {k \in SettingKeys : enabled /\ sets[k] # FALSE}},
   disableRulesetIds |->
     {RulesetFor[key] : key \in {k \in SettingKeys : ~(enabled /\ sets[k] # FALSE)}}]

\* settingMap of case toggleFilterList; "social" is not in it
settingMap ==
  [ads |-> "blockAds", trackers |-> "blockTrackers",
   miners |-> "blockMiners", malware |-> "blockMalware"]

\* message.settings of updateSettings messages
SettingPatches ==
  { [key \in {"blockAds"} |-> FALSE],
    [key \in {"blockAds", "blockTrackers"} |-> key = "blockAds"],
    [key \in {"blockMalware"} |-> FALSE] }

\* message toggleProtection, up to storage.set({ isEnabled })
ToggleProtection(t) ==
  /\ CallStarts(t)
  /\ isEnabled' = ~isEnabled
  /\ calls' = [calls EXCEPT ![t] = [NoCall EXCEPT !.op = "toggleProtection", !.pc = "store"]]
  /\ UNCHANGED <<engineVars, dynamicRules, enabledRulesets, settings,
                 dynamicRuleId, storage, lastUpdate>>

\* message updateSettings, up to storage.set({ settings })
UpdateSettings(t, patch) ==
  /\ CallStarts(t)
  /\ settings' = [key \in SettingKeys |->
                    IF key \in DOMAIN patch THEN patch[key] ELSE settings[key]]
  /\ calls' = [calls EXCEPT ![t] = [NoCall EXCEPT !.op = "updateSettings", !.pc = "store"]]
  /\ UNCHANGED <<engineVars, dynamicRules, enabledRulesets, isEnabled,
                 dynamicRuleId, storage, lastUpdate>>

\* message toggleFilterList (listId, enabled or undefined), up to storage.set
ToggleFilterListMessage(t, listId, enabled) ==
  /\ CallStarts(t)
  /\ IF listId \in DOMAIN settingMap
     THEN /\ settings' = [settings EXCEPT ![settingMap[listId]] =
                 IF enabled = "undefined" THEN ~@ ELSE enabled = "true"]
          /\ calls' = [calls EXCEPT ![t] =
                 [NoCall EXCEPT !.op = "toggleFilterList", !.pc = "store"]]
     ELSE UNCHANGED <<settings, calls>>
  /\ UNCHANGED <<engineVars, dynamicRules, enabledRulesets, isEnabled,
                 dynamicRuleId, storage, lastUpdate>>

\* storage.set is done: updateRules builds its lists from the current
\* isEnabled and settings and calls updateEnabledRulesets
SettingsStored(t) ==
  /\ calls[t].pc = "store"
  /\ lastUpdate' = updateRules(isEnabled, settings)
  /\ calls' = [calls EXCEPT ![t].pc = "rulesets", ![t].read = lastUpdate']
  /\ UNCHANGED <<engineVars, dynamicRules, enabledRulesets, ops, isEnabled, settings,
                 dynamicRuleId, storage>>

\* updateEnabledRulesets answers, or throws and the catch of updateRules logs
RulesetsAnswered(t) ==
  /\ calls[t].pc = "rulesets"
  /\ \/ enabledRulesets' = (enabledRulesets \ calls[t].read.disableRulesetIds)
                               \cup calls[t].read.enableRulesetIds
     \/ UNCHANGED enabledRulesets
  /\ calls' = [calls EXCEPT ![t] = NoCall]
  /\ UNCHANGED <<engineVars, dynamicRules, ops, isEnabled, settings,
                 dynamicRuleId, storage, lastUpdate>>

\* background.js after initialize(): its updateRules has enabled the rulesets
RulesInit ==
  /\ sources = [id \in ListIdSet |-> TRUE]
  /\ filterLists = <<>>
  /\ customRules = <<>>
  /\ compiledRules = <<>>
  /\ storedCustomRules = <<>>
  /\ filterCache = EmptyCache
  /\ dynamicRules = {}
  /\ userSets = [whitelist |-> <<>>, blacklist |-> <<>>]
  /\ rmSets = [whitelist |-> <<>>, blacklist |-> <<>>]
  /\ aliased = {}
  /\ task = [t \in Tasks |-> Idle("none")]
  /\ ops = 0
  /\ failures = 0
  /\ manager = [isEnabled |-> TRUE, blockingLevel |-> "moderate"]
  /\ enabledRulesets = WorkerRulesets
  /\ reply = NoReply
  /\ WorkerInit

RulesNext ==
  \/ \E t \in Tasks : ToggleProtection(t)
  \/ \E t \in Tasks, patch \in SettingPatches : UpdateSettings(t, patch)
  \/ \E t \in Tasks, listId \in DOMAIN settingMap \cup {"social"},
        enabled \in {"true", "false", "undefined"} :
       ToggleFilterListMessage(t, listId, enabled)
  \/ \E t \in Tasks : SettingsStored(t)
  \/ \E t \in Tasks : RulesetsAnswered(t)

RulesSpec == RulesInit /\ [][RulesNext]_vars

(***************************************************************************)
(* The RuleManager with a whitelist as large as its band: state.whitelist   *)
(* comes from an imported settings file, the rules are built when the next  *)
(* whitelist or blacklist message arrives.  Hosts are numbered.             *)
(***************************************************************************)
BandWidth(which) == ruleRanges[which].end - ruleRanges[which].start

\* the numbers of whitelist domains around what the band holds at two rules
\* per domain
ImportedSizes ==
  {BandWidth("whitelist") \div 2 + k : k \in 0..2}

MaxBandOps == 2

BandHosts == {0}

BandInit ==
  /\ sources = [id \in ListIdSet |-> TRUE]
  /\ filterLists = <<>>
  /\ customRules = <<>>
  /\ compiledRules = <<>>
  /\ storedCustomRules = <<>>
  /\ filterCache = EmptyCache
  /\ \E size \in ImportedSizes, black \in {<<>>, <<0>>} :
       /\ userSets = [whitelist |-> [n \in 1..size |-> n], blacklist |-> black]
       /\ dynamicRules = Range(BlacklistRules(black))
  /\ rmSets = [whitelist |-> <<>>, blacklist |-> <<>>]
  /\ aliased = {}
  /\ task = [t \in Tasks |-> Idle("none")]
  /\ ops = 0
  /\ failures = 0
  /\ ManagerInit
  /\ WorkerInit
  /\ reply = NoReply

BandNext ==
  \/ \E which \in {"whitelist", "blacklist"}, hostname \in BandHosts, add \in BOOLEAN :
       HandleList(Handler, MaxBandOps, which, hostname, add)
  \/ UpdateList(Handler)
  \/ ApplyGet(Handler)
  \/ ApplyRemove(Handler)
  \/ ApplyAdd(Handler)

BandSpec == BandInit /\ [][BandNext]_vars

(***************************************************************************)
(* Synchronous calls: the cosmetic query and the pure functions behind the  *)
(* parser, applied to an engine that holds lists and a compiled batch.      *)
(***************************************************************************)
\* the domains a query or a rule names
QueryDomains ==
  { <<"e", ".", "c">>, <<"s", ".", "e", ".", "c">>, <<"n", "e", ".", "c">>,
    <<"c">>, <<"a">> }

\* the entries of a rule's domain list; ~ marks an exclusion
DomainEntries ==
  { <<"e", ".", "c">>, <<"~", "e", ".", "c">>, <<"~", "s", ".", "e", ".", "c">>,
    <<"c">>, <<"a">> }

MaxEntries == 2

DomainLists == UNION {[1..n -> DomainEntries] : n \in 0..MaxEntries}

\* domain.endsWith(entry), without the dot
DomainMatchesBare(domain, entry) == EndsWith(domain, entry)

\* domain === entry || domain.endsWith('.' + entry)
DomainMatches(domain, entry) == domain = entry \/ EndsWith(domain, <<".">> \o entry)

\* FilterEngine.ruleApplies
ruleApplies(rule, domain) ==
  IF Len(rule.domains) = 0 THEN TRUE
  ELSE LET d        == rule.domains
           excluded == \E n \in 1..Len(d) :
                         StartsWith(d[n], <<"~">>) /\ DomainMatches(domain, Tail(d[n]))
           matched  == \E n \in 1..Len(d) :
                         ~StartsWith(d[n], <<"~">>) /\ DomainMatches(domain, d[n])
           applies  == matched \/ \A n \in 1..Len(d) : StartsWith(d[n], <<"~">>)
       IN  applies /\ ~excluded

\* [...new Set(rules)]: the first occurrence of each element, in order
RECURSIVE Dedupe(_, _)
Dedupe(s, seen) ==
  IF s = <<>> THEN <<>>
  ELSE IF Head(s) \in seen THEN Dedupe(Tail(s), seen)
  ELSE <<Head(s)>> \o Dedupe(Tail(s), seen \cup {Head(s)})

\* the rules of all lists, in the order getElementHidingRules goes through them
RECURSIVE AllRules(_)
AllRules(lists) ==
  IF lists = <<>> THEN <<>> ELSE Head(lists).rules \o AllRules(Tail(lists))

\* FilterEngine.getElementHidingRules
getElementHidingRules(domain) ==
  LET hiding == SelectSeq(AllRules(filterLists),
                          LAMBDA r : r.type = "element-hide" /\ ruleApplies(r, domain))
  IN  Dedupe([n \in 1..Len(hiding) |-> hiding[n].selector], {})

(***************************************************************************)
(* regexFilter: how declarativeNetRequest reads and applies the pattern of  *)
(* a compiled list rule (a partial match anywhere in the URL).              *)
(***************************************************************************)
Lower ==
  << "a", "b", "c", "d", "e", "f", "g", "h", "i", "j", "k", "l", "m",
     "n", "o", "p", "q", "r", "s", "t", "u", "v", "w", "x", "y", "z" >>

Upper ==
  << "A", "B", "C", "D", "E", "F", "G", "H", "I", "J", "K", "L", "M",
     "N", "O", "P", "Q", "R", "S", "T", "U", "V", "W", "X", "Y", "Z" >>

Digits == << "0", "1", "2", "3", "4", "5", "6", "7", "8", "9" >>

IndexIn(alphabet, c) == CHOOSE n \in 1..Len(alphabet) : alphabet[n] = c

\* c lies in the range from-to of a character class
Between(c, from, to) ==
  \E alphabet \in {Lower, Upper, Digits} :
    /\ {c, from, to} \subseteq Range(alphabet)
    /\ IndexIn(alphabet, from) <= IndexIn(alphabet, c)
    /\ IndexIn(alphabet, c) <= IndexIn(alphabet, to)

Token(k, c) == [k |-> k, c |-> c]

\* the position of the ] that ends the class opened at p[1], 0 if there is none
ClassEnd(p) ==
  IF \E j \in 2..Len(p) : p[j] = "]"
  THEN MinOf({j \in 2..Len(p) : p[j] = "]"}) ELSE 0

TokenKind(c) ==
  CASE c = "(" -> "open"  [] c = ")" -> "close" [] c = "|" -> "bar"
    [] c = "*" -> "star"  [] c = "+" -> "plus"  [] c = "?" -> "opt"
    [] c = "^" -> "bol"   [] c = "$" -> "eol"   [] c = "." -> "any"
    [] OTHER -> "lit"

\* the pattern as a sequence of tokens; \x is the literal x
RECURSIVE Tokenize(_)
Tokenize(p) ==
  IF p = <<>> THEN <<>>
  ELSE IF Head(p) = "\\"
  THEN IF Len(p) = 1 THEN <<Token("bad", <<>>)>>
       ELSE <<Token("lit", <<p[2]>>)>> \o Tokenize(SubSeq(p, 3, Len(p)))
  ELSE IF Head(p) = "["
  THEN IF ClassEnd(p) = 0 THEN <<Token("bad", <<>>)>>
       ELSE <<Token("class", SubSeq(p, 2, ClassEnd(p) - 1))>>
              \o Tokenize(SubSeq(p, ClassEnd(p) + 1, Len(p)))
  ELSE <<Token(TokenKind(Head(p)), <<Head(p)>>)>> \o Tokenize(Tail(p))

\* the number of groups open before token i
Depth(toks, i) ==
  Cardinality({k \in 1..(i - 1) : toks[k].k = "open"})
    - Cardinality({k \in 1..(i - 1) : toks[k].k = "close"})

Quantifiers == {"star", "plus", "opt"}

\* the pattern compiles: every group is closed, every ) closes a group, every
\* quantifier has something to repeat
WellFormed(p) ==
  LET toks == Tokenize(p)
  IN  /\ \A i \in 1..Len(toks) : toks[i].k # "bad"
      /\ \A i \in 1..Len(toks) : toks[i].k = "close" => Depth(toks, i) >= 1
      /\ Depth(toks, Len(toks) + 1) = 0
      /\ \A i \in 1..Len(toks) :
           toks[i].k \in Quantifiers =>
             i > 1 /\ toks[i - 1].k \notin (Quantifiers \cup {"open", "bar"})

\* c is one of the items (characters and ranges) of a class body
RECURSIVE ClassHas(_, _)
ClassHas(items, c) ==
  IF items = <<>> THEN FALSE
  ELSE IF Len(items) >= 3 /\ items[2] = "-"
  THEN Between(c, items[1], items[3]) \/ ClassHas(SubSeq(items, 4, Len(items)), c)
  ELSE items[1] = c \/ ClassHas(Tail(items), c)

InClass(body, c) ==
  IF body # <<>> /\ Head(body) = "^" THEN ~ClassHas(Tail(body), c)
  ELSE ClassHas(body, c)

\* the tokens of the first atom: one token, or a group up to its )
AtomLen(toks) ==
  IF toks[1].k = "open"
  THEN MinOf({j \in 2..Len(toks) : toks[j].k = "close" /\ Depth(toks, j) = 1})
  ELSE 1

TopBars(toks) == {i \in 1..Len(toks) : toks[i].k = "bar" /\ Depth(toks, i) = 0}

\* the positions of url the tokens can reach from a position of from
RECURSIVE MatchAlt(_, _, _)
RECURSIVE MatchSeq(_, _, _)
RECURSIVE MatchAtom(_, _, _)
RECURSIVE Closure(_, _, _)
MatchAlt(toks, url, from) ==
  IF TopBars(toks) = {} THEN MatchSeq(toks, url, from)
  ELSE LET b == MinOf(TopBars(toks))
       IN  MatchSeq(SubSeq(toks, 1, b - 1), url, from)
             \cup MatchAlt(SubSeq(toks, b + 1, Len(toks)), url, from)

MatchSeq(toks, url, from) ==
  IF toks = <<>> \/ from = {} THEN from
  ELSE LET n     == AtomLen(toks)
           atom  == SubSeq(toks, 1, n)
           q     == IF Len(toks) > n /\ toks[n + 1].k \in Quantifiers
                    THEN toks[n + 1].k ELSE "one"
           rest  == SubSeq(toks, n + (IF q = "one" THEN 1 ELSE 2), Len(toks))
           after == CASE q = "one"  -> MatchAtom(atom, url, from)
                      [] q = "opt"  -> from \cup MatchAtom(atom, url, from)
                      [] q = "star" -> Closure(atom, url, from)
                      [] q = "plus" -> Closure(atom, url, MatchAtom(atom, url, from))
       IN  MatchSeq(rest, url, after)

MatchAtom(atom, url, from) ==
  LET k == atom[1].k
  IN  CASE k = "open"  -> MatchAlt(SubSeq(atom, 2, Len(atom) - 1), url, from)
        [] k = "bol"   -> from \cap {0}
        [] k = "eol"   -> from \cap {Len(url)}
        [] k = "any"   -> {i + 1 : i \in {j \in from : j < Len(url)}}
        [] k = "class" ->
             {i + 1 : i \in {j \in from : j < Len(url) /\ InClass(atom[1].c, url[j + 1])}}
        [] OTHER       ->
             {i + 1 : i \in {j \in from : j < Len(url) /\ url[j + 1] = atom[1].c[1]}}

Closure(atom, url, from) ==
  LET next == from \cup MatchAtom(atom, url, from)
  IN  IF next = from THEN from ELSE Closure(atom, url, next)

\* the pattern matches somewhere in url
Matches(p, url) == MatchAlt(Tokenize(p), url, 0..Len(url)) # {}

Answered(fn, arg, result) ==
  /\ reply' = [fn |-> fn, arg |-> arg, result |-> result]
  /\ UNCHANGED <<sources, filterLists, customRules, compiledRules, storedCustomRules,
                 filterCache, dynamicRules, userSets, rmSets, aliased, task, ops,
                 failures, levelVars, workerVars>>

RuleApplies(domains, domain) ==
  Answered("ruleApplies", [domains |-> domains, domain |-> domain],
           ruleApplies([domains |-> domains], domain))

GetElementHidingRules(domain) ==
  Answered("getElementHidingRules", domain, getElementHidingRules(domain))

\* the filter line ||domain^
DomainRule(domain) == <<"|", "|">> \o domain \o <<"^">>

\* the patterns ruleToRegex is called with
QueryPatterns ==
  {DomainRule(d) : d \in QueryDomains}
    \cup { <<"*", "/", "a", "d", "*">>, <<"|", "h", "|">>, <<"/", "a", "+", "/">> }

RuleToRegex(pattern) == Answered("ruleToRegex", pattern, ruleToRegex(pattern))

\* a line of a hosts file: an entry `address host`, with the whitespace and
\* the inline comment around it, or a line of another kind
HostsLine(lead, address, gap, host, tail) ==
  [entry |-> TRUE, host |-> host, text |-> lead \o address \o gap \o host \o tail]

OtherLine(text) == [entry |-> FALSE, host |-> <<>>, text |-> text]

HostsLines ==
  { HostsLine(<<>>, <<"0", ".", "0", ".", "0", ".", "0">>, <<" ">>, <<"e", ".", "c">>, <<>>),
    HostsLine(<<" ">>, <<"1", "2", "7", ".", "0", ".", "0", ".", "1">>, <<" ", " ">>, <<"a">>, <<" ", "#", " ", "c">>),
    HostsLine(<<>>, <<"0", ".", "0", ".", "0", ".", "0">>, <<" ">>, <<"s", ".", "e", ".", "c">>, <<"#", "c">>),
    HostsLine(<<>>, <<"1", "2", "7", ".", "0", ".", "0", ".", "1">>, <<" ">>, Localhost, <<>>),
    HostsLine(<<>>, <<"0", ".", "0", ".", "0", ".", "0">>, <<" ">>, Localhost, <<" ", "#", "x">>),
    OtherLine(<<"#", " ", "c">>), OtherLine(<<>>), OtherLine(<<":", ":", "1", " ", "l", "o", "c", "a", "l", "h", "o", "s", "t">>), OtherLine(<<"0", ".", "0", ".", "0", ".", "0">>),
    OtherLine(<<"2", "5", "5", ".", "2", "5", "5", ".", "2", "5", "5", ".", "2", "5", "5", " ", "b">>) }

MaxLines == 2

HostsTexts == UNION {[1..n -> HostsLines] : n \in 0..MaxLines}

\* the text of a hosts file, line by line
HostsText(lines) == [n \in 1..Len(lines) |-> lines[n].text]

ParseHostsFile(lines) ==
  Answered("parseHostsFile", lines, parseFilterList(HostsText(lines), "hosts"))

QueryInit ==
  /\ sources = [id \in ListIdSet |-> TRUE]
  /\ filterLists \in ListStates
  /\ customRules \in Imports
  /\ compiledRules = Compile(filterLists, customRules)
  /\ storedCustomRules = customRules
  /\ filterCache = EmptyCache
  /\ dynamicRules = Range(compiledRules)
  /\ userSets = [whitelist |-> <<"github.com">>, blacklist |-> <<>>]
  /\ rmSets = [whitelist |-> <<>>, blacklist |-> <<>>]
  /\ aliased = {}
  /\ task = [t \in Tasks |-> Idle("none")]
  /\ ops = 0
  /\ failures = 0
  /\ ManagerInit
  /\ WorkerInit
  /\ reply = NoReply

\* part.split('='): the key and the value of one option
OptionKey(part) == SplitChar(part, "=", <<>>)[1]

OptionValue(part) ==
  LET pieces == SplitChar(part, "=", <<>>)
  IN  IF Len(pieces) >= 2 THEN pieces[2] ELSE <<>>

\* FilterEngine.parseRuleOptions: the domains of the last domain= option, and
\* the flags
parseRuleOptions(optionString) ==
  LET parts   == SplitChar(optionString, ",", <<>>)
      domains == SelectSeq(parts, LAMBDA part : OptionKey(part) = <<"d", "o", "m", "a", "i", "n">>)
      has(keys) == \E n \in 1..Len(parts) : OptionKey(parts[n]) \in keys
  IN  [hasDomains |-> domains # <<>>,
       domains    |-> IF domains = <<>> \/ OptionValue(domains[Len(domains)]) = <<>>
                      THEN <<>>
                      ELSE SplitChar(OptionValue(domains[Len(domains)]), "|", <<>>),
       thirdParty |-> has({<<"t", "h", "i", "r", "d", "-", "p", "a", "r", "t", "y">>, <<"3", "p">>}),
       firstParty |-> has({<<"~", "t", "h", "i", "r", "d", "-", "p", "a", "r", "t", "y">>, <<"1", "p">>}),
       important  |-> has({<<"i", "m", "p", "o", "r", "t", "a", "n", "t">>})]

\* the domain part of the condition compileToDNR builds from rule.options
DomainCondition(options) ==
  [initiatorDomains |->
     SelectSeq(options.domains, LAMBDA d : ~StartsWith(d, <<"~">>)),
   excludedInitiatorDomains |->
     LET excluded == SelectSeq(options.domains, LAMBDA d : StartsWith(d, <<"~">>))
     IN  [n \in 1..Len(excluded) |-> Tail(excluded[n])],
   domainType |-> IF options.thirdParty THEN "thirdParty"
                  ELSE IF options.firstParty THEN "firstParty" ELSE "none"]

\* the network filter lines a list rule is parsed and compiled from
OptionLines ==
  { <<"|", "|", "a", "^">>,
    <<"|", "|", "a", "^", "$", "i", "m", "p", "o", "r", "t", "a", "n", "t">>,
    <<"|", "|", "a", "^", "$", "d", "o", "m", "a", "i", "n", "=", "e", ".", "c", "|", "~", "e", ".", "c">>,
    <<"|", "|", "a", "^", "$", "d", "o", "m", "a", "i", "n", "=", "e", ".", "c", "|", "~", "s", ".", "e", ".", "c">>,
    <<"|", "|", "a", "^", "$", "3", "p", ",", "d", "o", "m", "a", "i", "n", "=", "~", "c">>,
    <<"*", "/", "a", "d", "*", "$", "d", "o", "m", "a", "i", "n", "=", "a", ",", "i", "m", "p", "o", "r", "t", "a", "n", "t">> }

\* parseNetworkRule, then compileToDNR with the rule's options
CompileToDNR(line) ==
  LET rule == parseNetworkRule(line)
  IN  Answered("compileToDNR", line,
               [rule      |-> compileToDNR(rule, FirstRuleId),
                options   |-> parseRuleOptions(rule.options),
                condition |-> DomainCondition(parseRuleOptions(rule.options))])

\* the cosmetic filter lines parseElementHidingRule is called with
ElementLines ==
  { <<"#", "#", "#", "a", "d">>,
    <<"#", "@", "#", ".", "x">>,
    <<"#", "#", ".", "z">>,
    <<"a", "#", "#", ".", "x">>,
    <<"a", ",", "c", "#", "@", "#", ".", "y">>,
    <<"c", "#", "#", "b", "#", "#", "d">>,
    <<"a", "#", "@", "#", "b", "#", "#", "d">> }

ParseElementHidingRule(rule) ==
  Answered("parseElementHidingRule", rule, parseElementHidingRule(rule))

QueryNext ==
  \/ \E domains \in DomainLists, domain \in QueryDomains : RuleApplies(domains, domain)
  \/ \E domain \in QueryDomains : GetElementHidingRules(domain)
  \/ \E pattern \in QueryPatterns : RuleToRegex(pattern)
  \/ \E lines \in HostsTexts : ParseHostsFile(lines)
  \/ \E rule \in ElementLines : ParseElementHidingRule(rule)
  \/ \E line \in OptionLines : CompileToDNR(line)

QuerySpec == QueryInit /\ [][QueryNext]_vars

(***************************************************************************)
(* List updates on an engine that holds a list from an earlier update: the  *)
(* text cached then is no longer what a fetch returns. Pages ask for their    *)
(* cosmetic rules meanwhile.                                                *)
(***************************************************************************)
OldText ==
  << <<"|", "|", "o", "^">>,
     <<"o", "#", "@", "#", ".", "y">>,
     <<"a", "#", "#", ".", "z">> >>

FetchInit ==
  /\ sources = [id \in ListIdSet |-> TRUE]
  /\ filterLists = <<CachedList("easylist", OldText)>>
  /\ customRules = <<>>
  /\ compiledRules = Compile(filterLists, customRules)
  /\ storedCustomRules = <<>>
  /\ filterCache = [EmptyCache EXCEPT
                      !["easylist"] = [has |-> TRUE, rules |-> parseAdblockList(OldText)]]
  /\ dynamicRules = Range(compiledRules)
  /\ userSets = [whitelist |-> <<"github.com">>, blacklist |-> <<>>]
  /\ rmSets = [whitelist |-> <<>>, blacklist |-> <<>>]
  /\ aliased = {}
  /\ task = [t \in Tasks |-> Idle("none")]
  /\ ops = 0
  /\ failures = 0
  /\ ManagerInit
  /\ WorkerInit
  /\ reply = NoReply

FetchNext ==
  \/ UpdateFilterLists(Handler, MaxSeqOps)
  \/ \E id \in ListIdSet, enabled \in BOOLEAN :
       ToggleFilterList(Handler, MaxSeqOps, id, enabled)
  \/ \E id \in ListIdSet : FetchDone(Handler, id)
  \/ \E id \in ListIdSet : CacheGet(Handler, id)
  \/ \E id \in ListIdSet : CacheSet(Handler, id)
  \/ SyncGet(Handler)
  \/ SyncRemove(Handler)
  \/ SyncAdd(Handler)
  \/ \E domain \in QueryDomains : GetElementHidingRules(domain)

FetchSpec == FetchInit /\ [][FetchNext]_vars

(***************************************************************************)
(* Properties                                                              *)
(***************************************************************************)
AllIdle == \A t \in Tasks : task[t].pc = "idle"

IsListRule(r) == r.key = "regexFilter"

IsCustomRule(r) == r.key = "urlFilter"

\* the rules in the backend that the FilterEngine compiled
EngineRules(installed) == {r \in installed : IsListRule(r) \/ IsCustomRule(r)}

ListPart(batch) == SelectSeq(batch, IsListRule)

CustomPart(batch) == SelectSeq(batch, IsCustomRule)

\* the action declarativeNetRequest takes when exactly the rules of matching
\* match a request: the highest priority wins and, at equal priority, allow
\* wins over block
Resolve(matching) ==
  LET top == CHOOSE p \in {r.priority : r \in matching} :
               \A r \in matching : r.priority <= p
  IN  IF \E r \in matching : r.priority = top /\ r.action = "allow"
      THEN "allow" ELSE "block"

\* C1 (as claimed): in every compiled batch no two rules share an id, every
\* list-sourced rule has its id in a band of its own, outside the custom band,
\* and every custom rule has its id inside the custom band [100000, 199999).
CompiledIdsInBands ==
  /\ \A m, n \in 1..Len(compiledRules) :
       compiledRules[m].id = compiledRules[n].id => m = n
  /\ \A r \in Range(compiledRules) :
       /\ IsListRule(r) => ~InBand("custom", r.id)
       /\ IsCustomRule(r) => InBand("custom", r.id)

\* C2: whenever a request is matched by rules of the compiled batch among which
\* are a list-sourced block rule and a custom allow rule, the allow rule's
\* priority is strictly greater than the block rule's and the resolved action
\* is allow.
CustomAllowBeatsListBlock ==
  \A matching \in SUBSET Range(compiledRules) :
    \A b \in matching, a \in matching :
      (IsListRule(b) /\ b.action = "block" /\ IsCustomRule(a) /\ a.action = "allow")
        => a.priority > b.priority /\ Resolve(matching) = "allow"

CustomAllowBeatsListBlockWitness ==
  /\ \E b \in Range(compiledRules) : IsListRule(b) /\ b.action = "block"
  /\ \E a \in Range(compiledRules) : IsCustomRule(a) /\ a.action = "allow"
  /\ \E c \in Range(compiledRules) : IsCustomRule(c) /\ c.action = "block"

\* the tier of an installed rule
Tier(r) ==
  IF InBand("whitelist", r.id) THEN "whitelist"
  ELSE IF InBand("blacklist", r.id) THEN "blacklist"
  ELSE IF IsCustomRule(r) /\ r.action = "allow" THEN "customAllow"
  ELSE IF IsCustomRule(r) THEN "customBlock"
  ELSE "list"

\* the order of the tiers as claimed, and as the installed priorities have it
ClaimedRank ==
  [customAllow |-> 5, customBlock |-> 4, whitelist |-> 3, blacklist |-> 2, list |-> 1]

InstalledRank ==
  [whitelist |-> 5, blacklist |-> 4, customAllow |-> 3, customBlock |-> 2, list |-> 1]

OrderedBy(rank) ==
  \A r1, r2 \in dynamicRules :
    rank[Tier(r1)] > rank[Tier(r2)] => r1.priority > r2.priority

RECURSIVE ProcessedLists(_, _)
ProcessedLists(lists, count) ==
  IF lists = <<>> THEN <<>>
  ELSE LET next == count + Len(CompileList(Head(lists).rules, 0))
       IN  IF next >= RuleLimit THEN <<Head(lists)>>
           ELSE <<Head(lists)>> \o ProcessedLists(Tail(lists), next)

\* C4 (as claimed): once the handlers are done, every network-exception rule of
\* a list that compileRules went through is in the compiled batch as an allow
\* rule whose priority is higher than every list-sourced block rule's.
ExceptionsCompiledAsAllow ==
  AllIdle =>
    \A list \in Range(ProcessedLists(filterLists, 0)) :
      \A rule \in Range(list.rules) :
        rule.type = "network-exception" =>
          \E a \in Range(compiledRules) :
            /\ IsListRule(a) /\ a.action = "allow" /\ a.value = rule.pattern
            /\ \A b \in Range(compiledRules) :
                 (IsListRule(b) /\ b.action = "block") => a.priority > b.priority

InCompileRules(t) == task[t].pc \in {"sync_get", "sync_remove", "sync_add"}

\* C5 (as claimed): at most one execution of compileRules (the compilation and
\* its synchronization) is in progress at any moment.
AtMostOneCompilation == Cardinality({t \in Tasks : InCompileRules(t)}) <= 1

\* C6 (as claimed): once every handler has finished, and no backend call has
\* failed, the FilterEngine's rules in the backend are the compilation of the
\* latest lists and custom rules.
LatestCompilationInstalled ==
  (AllIdle /\ failures = 0) =>
    EngineRules(dynamicRules) = Range(Compile(filterLists, customRules))

\* C7: whenever a run of updateDynamicRules(target) has completed with no call
\* failing, the first run or a later one, after a failed run or not, the
\* FilterEngine's rules in the backend are exactly target.
SyncConverges ==
  \A t \in Tasks :
    (task[t].pc = "idle" /\ task[t].result = "ok")
      => EngineRules(dynamicRules) = Range(compiledRules)

SyncConvergesWitness ==
  /\ task[Handler].pc = "idle"
  /\ task[Handler].result = "ok"
  /\ failures > 0
  /\ Len(compiledRules) > BatchSize
  /\ dynamicRules = Range(compiledRules)

\* C8 (as claimed): when a removal or an add call of updateDynamicRules fails,
\* the backend still holds the FilterEngine rules it held when the run read
\* them.
FailedSyncKeepsInstalled ==
  [][\A t \in Tasks :
       (task[t].pc \in {"sync_remove", "sync_add"} /\ task'[t].pc = "idle"
          /\ task'[t].result = "failed")
         => EngineRules(dynamicRules') = EngineRules(task[t].existing)]_vars

\* C9 (as claimed): the compiled batch never holds more list-sourced rules than
\* the limit.
ListRulesWithinLimit == Len(ListPart(compiledRules)) <= RuleLimit

\* C10: unless a custom-rule operation still waits for its compileRules, the
\* custom part of the compiled batch has one rule per custom rule, in order,
\* with the custom rule's pattern and type, whether or not the list-sourced
\* rules have reached the limit.
CustomRulesAllCompiled ==
  (\A t \in Tasks : task[t].pc # "stored") =>
    /\ Len(CustomPart(compiledRules)) = Len(customRules)
    /\ \A n \in 1..Len(customRules) :
         /\ CustomPart(compiledRules)[n].value = customRules[n].pattern
         /\ CustomPart(compiledRules)[n].action = customRules[n].type

CustomRulesAllCompiledWitness ==
  /\ Len(ListPart(compiledRules)) >= RuleLimit
  /\ Len(customRules) > 0
  /\ Len(CustomPart(compiledRules)) = Len(customRules)
  /\ \A t \in Tasks : task[t].pc # "stored"

\* the orders in which the fetches of updateFilterLists may complete and insert
\* the lists into filterLists
FetchOrders(lists) ==
  {order \in [1..Len(lists) -> Range(lists)] : Range(order) = Range(lists)}

\* C11 (as claimed): once the handlers are done, the compiled batch is the one
\* the list texts and custom rules give whatever order the list fetches
\* completed in: same ids, same priorities, same patterns.
CompilationIndependentOfFetchOrder ==
  AllIdle =>
    \A order \in FetchOrders(filterLists) :
      Compile(order, customRules) = compiledRules

\* the include and the exclude entries of a rule's domain list
IncludeEntries(domains) ==
  {domains[n] : n \in {m \in 1..Len(domains) : Head(domains[m]) # "~"}}

ExcludeEntries(domains) ==
  {Tail(domains[n]) : n \in {m \in 1..Len(domains) : Head(domains[m]) = "~"}}

\* a domain matches an entry iff it is the entry or the entry after a dot
MatchesEntry(domain, entry) ==
  \/ domain = entry
  \/ /\ Len(domain) > Len(entry)
     /\ domain[Len(domain) - Len(entry)] = "."
     /\ \A k \in 1..Len(entry) : domain[Len(domain) - Len(entry) + k] = entry[k]

\* C12: ruleApplies answers TRUE iff the include list is empty or the domain
\* matches one of its entries, and the domain matches no exclude entry; a
\* domain matches an entry iff it equals it or ends with '.' + entry.
RuleAppliesAsSpecified ==
  reply.fn = "ruleApplies" =>
    LET inc    == IncludeEntries(reply.arg.domains)
        exc    == ExcludeEntries(reply.arg.domains)
        domain == reply.arg.domain
    IN  reply.result =
          /\ inc = {} \/ \E e \in inc : MatchesEntry(domain, e)
          /\ ~\E e \in exc : MatchesEntry(domain, e)

\* an exclude entry wins over a matching include entry
RuleAppliesWitness ==
  /\ reply.fn = "ruleApplies"
  /\ reply.result = FALSE
  /\ \E e \in IncludeEntries(reply.arg.domains) : MatchesEntry(reply.arg.domain, e)
  /\ \E e \in ExcludeEntries(reply.arg.domains) : MatchesEntry(reply.arg.domain, e)

\* the URL https://host/x
Url(host) == <<"h", "t", "t", "p", "s", ":", "/", "/">> \o host \o <<"/", "x">>

\* C13 (as claimed): for a pattern ||domain^ the result of ruleToRegex is a
\* well-formed pattern that matches https://domain/x and https://a.domain/x
\* and matches neither https://notdomain/x nor https://domain.evil.com/x.
DomainRuleRegexAnchored ==
  \A d \in QueryDomains :
    (reply.fn = "ruleToRegex" /\ reply.arg = DomainRule(d)) =>
      /\ WellFormed(reply.result)
      /\ Matches(reply.result, Url(d))
      /\ Matches(reply.result, Url(<<"a", ".">> \o d))
      /\ ~Matches(reply.result, Url(<<"n", "o", "t">> \o d))
      /\ ~Matches(reply.result, Url(d \o <<".", "e", "v", "i", "l", ".", "c", "o", "m">>))

\* the hosts of the lines `0.0.0.0 host` / `127.0.0.1 host` other than localhost
BlockedHosts(lines) ==
  LET entries == SelectSeq(lines, LAMBDA l : l.entry /\ l.host # Localhost)
  IN  [n \in 1..Len(entries) |-> entries[n].host]

\* C14: parsing a hosts text gives exactly one network-block rule per line
\* `0.0.0.0 host` or `127.0.0.1 host` whose host is not localhost, in order
\* and with the inline comment stripped; the rule's pattern is well formed and
\* matches the host and its subdomains only; compiling the list gives one
\* block rule per such line.
HostsParsedAsSpecified ==
  reply.fn = "parseHostsFile" =>
    LET hosts == BlockedHosts(reply.arg)
        batch == Compile(<<[id |-> "stevenblack", rules |-> reply.result]>>, <<>>)
    IN  /\ Len(reply.result) = Len(hosts)
        /\ Len(batch) = Len(hosts)
        /\ \A n \in 1..Len(hosts) :
             /\ reply.result[n].type = "network-block"
             /\ batch[n].action = "block"
             /\ batch[n].value = reply.result[n].pattern
             /\ WellFormed(batch[n].value)
             /\ Matches(batch[n].value, Url(hosts[n]))
             /\ Matches(batch[n].value, Url(<<"a", ".">> \o hosts[n]))
             /\ ~Matches(batch[n].value, Url(<<"n", "o", "t">> \o hosts[n]))
             /\ ~Matches(batch[n].value,
                         Url(hosts[n] \o <<".", "e", "v", "i", "l", ".", "c", "o", "m">>))

\* a text with a localhost line and a blocked host has been parsed
HostsParsedWitness ==
  /\ reply.fn = "parseHostsFile"
  /\ \E n \in 1..Len(reply.arg) : reply.arg[n].entry /\ reply.arg[n].host = Localhost
  /\ Len(reply.result) = 1
  /\ Len(BlockedHosts(reply.arg)) = 1

\* the installed rules of a RuleManager category, whatever their ids
CategoryRules(which, installed) ==
  IF which = "whitelist"
  THEN {r \in installed : r.action = "allow"
                            /\ r.key \in {"initiatorDomains", "requestDomains"}}
  ELSE {r \in installed : r.action = "block" /\ r.key = "requestDomains"}

OtherCategory(which) == IF which = "whitelist" THEN "blacklist" ELSE "whitelist"

\* C15 (as claimed): no whitelist or blacklist rule is installed with an id
\* outside its band; once the handler is done and no call has failed, a
\* category that produces more rules than its band is wide has exactly
\* band-width rules installed; and applying one category leaves the installed
\* rules of the other unchanged.
BandOverflowContained ==
  /\ [](\A which \in {"whitelist", "blacklist"} :
          /\ \A r \in CategoryRules(which, dynamicRules) : InBand(which, r.id)
          /\ (AllIdle /\ failures = 0
                /\ Len(ListRules(which, rmSets[which])) > BandWidth(which))
               => Cardinality(CategoryRules(which, dynamicRules)) = BandWidth(which))
  /\ [][\A t \in Tasks :
          task[t].pc \in {"apply_remove", "apply_add"} =>
            CategoryRules(OtherCategory(task[t].which), dynamicRules')
              = CategoryRules(OtherCategory(task[t].which), dynamicRules)]_vars

\* the entry of list id in a map, NoEntry when it has none
EntryOf(lists, id) ==
  IF MapHas(lists, id)
  THEN [has |-> TRUE, rules |-> lists[CHOOSE n \in 1..Len(lists) : lists[n].id = id].rules]
  ELSE NoEntry

\* handler t's fetch of list id fails in this step
FetchFails(t, id) ==
  /\ task[t].pc = "lists"
  /\ task[t].sub[id] = "fetch"
  /\ task'[t] # task[t]
  /\ task'[t].pc # "lists" \/ task'[t].sub[id] = "done"

\* C16: a failed fetch of a list leaves filterLists and the persisted cache as
\* they were, and a compilation that follows at once is the compilation of
\* the lists as they were: a list the compilation goes through has its block
\* rules in the batch.
FailedFetchKeepsList ==
  [][\A t \in Tasks, id \in ListIdSet :
       FetchFails(t, id) =>
         /\ filterLists' = filterLists
         /\ filterCache' = filterCache
         /\ task'[t].pc = "sync_get" =>
              /\ compiledRules' = Compile(filterLists, customRules)
              /\ \A list \in Range(ProcessedLists(filterLists, 0)) :
                   \A rule \in Range(list.rules) :
                     rule.type = "network-block" =>
                       \E r \in Range(compiledRules') : r.value = rule.pattern]_vars

\* the first operation was updateFilterLists, its fetch of easylist failed
\* and its compilation holds the rule of the list cached before
FailedFetchWitness ==
  /\ ops = 1
  /\ task[Handler].op = "updateFilterLists"
  /\ task[Handler].pc = "sync_get"
  /\ EntryOf(filterLists, "easylist").rules = parseAdblockList(OldText)
  /\ filterCache["easylist"].rules = parseAdblockList(OldText)
  /\ \E r \in Range(compiledRules) : r.value = parseAdblockList(OldText)[1].pattern

\* the lists of the map whose source is enabled
EnabledLists(lists, src) == SelectSeq(lists, LAMBDA l : src[l.id])

\* handler t's toggleFilterList reaches its compileRules in this step
ToggleCompiles(t) ==
  /\ task[t].pc # "sync_get"
  /\ task'[t].pc = "sync_get"
  /\ task'[t].op = "toggleFilterList"

\* C17 (as claimed): the batch a toggleFilterList compiles is the compilation
\* of the enabled lists and the custom rules, so it holds no rule of a list
\* that is disabled.
CompiledFromEnabledLists ==
  [][\A t \in Tasks :
       ToggleCompiles(t) =>
         compiledRules' = Compile(EnabledLists(filterLists', sources'), customRules')]_vars

\* the patterns of the network-block rules of the texts a list can have
BlockPatterns ==
  UNION { {rule.pattern : rule \in {x \in Range(parseAdblockList(text)) :
                                      x.type = "network-block"}} :
          text \in Texts \cup {OldText} }

\* C18: getElementHidingRules changes none of filterLists, customRules,
\* compiledRules and the installed rules, and every list rule of the compiled
\* batch is the compilation of a network-block rule: no element-hide or
\* element-exception rule is in it.
ElementRulesNotCompiled ==
  /\ [](\A r \in Range(compiledRules) :
          r.key = "regexFilter" => r.value \in BlockPatterns /\ r.value # <<>>)
  /\ [][reply' # reply =>
          UNCHANGED <<filterLists, customRules, compiledRules, dynamicRules>>]_vars

\* a page was given a selector while the batch compiled from lists that hold
\* an element-hide and an element-exception rule is being installed
ElementRulesWitness ==
  /\ reply.fn = "getElementHidingRules"
  /\ reply.result # <<>>
  /\ task[Handler].pc = "sync_add"
  /\ compiledRules # <<>>
  /\ \E x \in Range(AllRules(filterLists)) : x.type = "element-hide"
  /\ \E x \in Range(AllRules(filterLists)) : x.type = "element-exception"

\* the rulesets of the ads, tracker and social protections
AdsTrackerSocial == {"default_rules", "tracking_rules", "social_rules"}

\* C19 (as claimed): when setBlockingLevel("minimal") completes with the
\* protection enabled and no call failed, none of the ads, tracker and social
\* rulesets is enabled.
MinimalDisablesAdsTrackerSocial ==
  [][\A t \in Tasks :
       ( /\ task[t].op = "setBlockingLevel"
         /\ task[t].which = "minimal"
         /\ task[t].pc = "rulesets"
         /\ task'[t].pc = "idle"
         /\ failures' = failures )
       => enabledRulesets' \cap AdsTrackerSocial = {}]_vars

\* the installed rules whose id is outside the band compileRules numbers from
ForeignRules(installed) == {r \in installed : ~InBand("custom", r.id)}

\* C20 (as claimed): a step of the FilterEngine's updateDynamicRules leaves
\* every installed rule outside the engine's band installed: the whitelist and
\* blacklist rules are there after it as before.
SyncKeepsForeignRules ==
  [][\A t \in Tasks :
       task[t].pc \in {"sync_get", "sync_remove", "sync_add"} =>
         ForeignRules(dynamicRules) \subseteq dynamicRules']_vars

\* C21 (as claimed): a call of updateDynamicRules that the synchronization has
\* in flight carries at most BatchSize removal ids and at most BatchSize rules
\* to add.
SyncCallsWithinBatchSize ==
  \A t \in Tasks :
    /\ task[t].pc = "sync_remove" =>
         Cardinality(existingIds(task[t].existing)) <= BatchSize
    /\ task[t].pc = "sync_add" => Len(Batch(task[t].rules, task[t].i)) <= BatchSize

\* C22 (as claimed): the synchronization removes exactly the installed rules
\* that are not in the new batch and adds exactly the rules of the batch that
\* are not installed, so a rule that is installed and in the batch stays
\* installed through every step.
SyncIsMinimalDiff ==
  [][\A t \in Tasks :
       task[t].pc \in {"sync_remove", "sync_add"} =>
         /\ dynamicRules \cap Range(task[t].rules) \subseteq dynamicRules'
         /\ dynamicRules \ dynamicRules' \subseteq task[t].existing \ Range(task[t].rules)
         /\ dynamicRules' \ dynamicRules \subseteq Range(task[t].rules)]_vars

\* the first position at which p occurs in s
FirstOccurrence(s, p) == MinOf({i \in 1..Len(s) : OccursAt(s, p, i)})

\* the rule the statement gives for a cosmetic line: split at the first
\* occurrence of the separator, #@# marking the exception variant
SplitAtSeparator(line) ==
  LET sep   == IF Includes(line, <<"#", "@", "#">>) THEN <<"#", "@", "#">> ELSE <<"#", "#">>
      at    == FirstOccurrence(line, sep)
  IN  ParsedRule(IF sep = <<"#", "@", "#">> THEN "element-exception" ELSE "element-hide",
                 <<>>, <<>>,
                 DomainList(SubSeq(line, 1, at - 1)),
                 SubSeq(line, at + Len(sep), Len(line)))

\* C23 (as claimed): parseElementHidingRule splits the line at the first
\* occurrence of its separator: the left side is the domain list, empty for a
\* global rule, and the right side is the selector.
ElementRuleSplitAtFirstSeparator ==
  reply.fn = "parseElementHidingRule" => reply.result = SplitAtSeparator(reply.arg)

\* the priority of a list rule without options
OrdinaryPriority == compileToDNR(parseNetworkRule(<<"|", "|", "a", "^">>), FirstRuleId).priority

\* C24 (as claimed): a list rule with the important option is compiled with a
\* priority higher than that of an ordinary list rule and lower than that of
\* every custom rule.
ImportantRulesRankHigher ==
  (reply.fn = "compileToDNR" /\ reply.result.options.important) =>
    /\ reply.result.rule.priority > OrdinaryPriority
    /\ \A type \in {"block", "allow"} :
         reply.result.rule.priority <
           compileCustomToDNR(CustomRule(1, type), FirstRuleId).priority

\* C25 (as claimed): no domain is both in the initiatorDomains and in the
\* excludedInitiatorDomains of a compiled list rule.
DomainSetsDisjoint ==
  reply.fn = "compileToDNR" =>
    Range(reply.result.condition.initiatorDomains)
      \cap Range(reply.result.condition.excludedInitiatorDomains) = {}

\* C26 (as claimed): once all updateWhitelist calls have finished and no
\* backend call failed, the installed rules of the whitelist band are exactly
\* the two allow rules of each domain of the RuleManager's whitelist.
WhitelistRulesMatchSet ==
  (AllIdle /\ failures = 0) =>
    {r \in dynamicRules : InBand("whitelist", r.id)}
      = Range(WhitelistRules(rmSets.whitelist))

\* C28 (as claimed): when the first operation is an updateFilterLists whose
\* fetches all succeeded, the persisted filterCache holds, at its compileRules,
\* the fresh entry of every list.
CacheHoldsEveryRefreshedList ==
  [][\A t \in Tasks :
       ( /\ ops = 1
         /\ task[t].op = "updateFilterLists"
         /\ task[t].pc = "lists"
         /\ task'[t].pc = "sync_get"
         /\ \A id \in ListIdSet :
              /\ MapHas(filterLists', id)
              /\ EntryOf(filterLists', id).rules # parseAdblockList(OldText) )
       => \A id \in ListIdSet : filterCache'[id] = EntryOf(filterLists', id)]_vars

\* the handlers of background.js are done
NoCalls == \A t \in Tasks : calls[t].pc = "idle"

\* C27 (as claimed): between messages, every URL of siteExceptions has an
\* installed allow rule whose id exceptionRuleMap records, no two URLs share
\* a rule id, and a URL that is not an exception has no allow rule installed.
ExceptionsHaveTheirRules ==
  NoCalls =>
    /\ \A url \in Range(storage.siteExceptions.urls) :
         ExceptionRule(url, storage.exceptionRuleMap[url]) \in dynamicRules
    /\ \A u, v \in Range(storage.siteExceptions.urls) :
         u # v => storage.exceptionRuleMap[u] # storage.exceptionRuleMap[v]
    /\ \A url \in Urls \ Range(storage.siteExceptions.urls) :
         ~\E r \in dynamicRules : r.action = "allow" /\ r.value = EscapeUrl(url)

\* C29 (as claimed): once the recordBlock calls are all done, the persisted
\* totalBlocked is the number of calls and the sum of the four type counters.
StatisticsCountEveryBlock ==
  NoCalls =>
    /\ storage.statistics.totalBlocked = ops
    /\ storage.statistics.totalBlocked =
         storage.statistics.adsBlocked + storage.statistics.trackersBlocked
           + storage.statistics.minersBlocked + storage.statistics.malwareBlocked

\* the rulesets whose setting is not false, when protection is on
RulesetsSwitchedOn(enabled, sets) ==
  IF enabled = TRUE THEN {RulesetFor[key] : key \in {k \in SettingKeys : sets[k] # FALSE}}
  ELSE {}

\* C30: every updateRules call puts each of the four rulesets in exactly one
\* of its two lists, and in the enable list iff isEnabled is true and its
\* setting is not false, at the time of the call; a toggleProtection that
\* turns protection off disables all four; and once the handlers are done the
\* last call made is the one for the current isEnabled and settings.
UpdateRulesReflectsState ==
  /\ [](lastUpdate.made =>
          /\ lastUpdate.enableRulesetIds \cap lastUpdate.disableRulesetIds = {}
          /\ lastUpdate.enableRulesetIds \cup lastUpdate.disableRulesetIds = WorkerRulesets)
  /\ []((NoCalls /\ lastUpdate.made) =>
          lastUpdate.enableRulesetIds = RulesetsSwitchedOn(isEnabled, settings))
  /\ [][\A t \in Tasks :
          (calls[t].pc = "store" /\ calls'[t].pc = "rulesets") =>
            /\ lastUpdate'.made
            /\ lastUpdate'.enableRulesetIds = RulesetsSwitchedOn(isEnabled', settings')
            /\ (calls[t].op = "toggleProtection" /\ ~isEnabled') =>
                 lastUpdate'.disableRulesetIds = WorkerRulesets]_vars

\* protection was turned off and a setting was switched off; the handlers
\* are done and the last call disabled all four rulesets
UpdateRulesWitness ==
  /\ NoCalls
  /\ ops >= 2
  /\ ~isEnabled
  /\ \E key \in SettingKeys : settings[key] = FALSE
  /\ lastUpdate.made
  /\ lastUpdate.enableRulesetIds = {}
  /\ lastUpdate.disableRulesetIds = WorkerRulesets

====
